---------------------------- MODULE Spec2Model ----------------------------
(***************************************************************************)
(* Verification model of the luxmeter tools gm1020.py (Benetech GM1020,    *)
(* 8-byte command/response protocol) and ut382.py (Uni-T UT382, 33-byte    *)
(* streaming protocol).                                                    *)
(*                                                                         *)
(* Three specifications share the module:                                  *)
(*   SpecFn    the pure functions of gm1020.py applied to bounded inputs   *)
(*   SpecGm    one invocation of gm1020.py: main / core and its generators *)
(*   SpecSync  the ut382.py frame synchronizer and live reading stream     *)
(* Python floats are modelled as IEEE-754 binary64 values (a natural       *)
(* mantissa of at most 53 bits and a binary exponent), with every          *)
(* operation rounded to nearest, ties to even, as the interpreter does.    *)
(***************************************************************************)
EXTENDS Integers, Sequences, FiniteSets, TLC

VARIABLES
    fnCall,      \* SpecFn: the last function application (name, arguments, result)
    opts,        \* SpecGm: the parsed command line options
    pc,          \* SpecGm: position of main / core
    conf,        \* SpecGm: core's conf dictionary (NoConf while it is {})
    written,     \* SpecGm: the frames written to the channel, in order
    isOpen,      \* SpecGm: the serial channel is open
    gen,         \* SpecGm: state of the live_monitor generator object
    rows,        \* SpecGm: the rows core wrote to the output (dump and monitor)
    dumped,      \* SpecGm: the 2-byte pairs dump_memory received, in order
    confirm,     \* SpecGm: result of the last send_and_confirm, with frame and reply
    fault,       \* SpecGm: the exception that ended the invocation ("none" if none)
    source,      \* SpecSync: everything the meter emits, bytes and silences
    wire,        \* SpecSync: the part of source not yet read
    err,         \* SpecSync: live_sync's err (TRUE: resync mode, FALSE: locked)
    comTimeout,  \* SpecSync: com.timeout, "byte" (0.02 s) or "frame" (0.2 s)
    frames,      \* SpecSync: what live_sync yielded, with the chunk and the mode
    rejected,    \* SpecSync: number of 33-byte chunks that failed validation
    readings,    \* SpecSync: what live_monitor yielded
    utFault,     \* SpecSync: the exception that left live_monitor ("none" if none)
    coreOpts,    \* SpecCore: options.moving (0: not given) and options.delta
    feed,        \* SpecCore: the readings live_monitor yields, repeated in a cycle
    seen,        \* SpecCore: number of readings live_monitor has yielded
    valid,       \* SpecCore: number of those that live_average put in its history
    history,     \* SpecCore: live_average's history
    old,         \* SpecCore: core's old, the text of the last line written
    lines,       \* SpecCore: the lines core wrote to the output
    coreLog      \* SpecCore: every item core's loop received and what became of it

fnVars == <<fnCall>>
syncVars == <<source, wire, err, comTimeout, frames, rejected, readings, utFault>>
gmVars == <<opts, pc, conf, written, isOpen, gen, rows, dumped, confirm, fault>>
coreVars == <<coreOpts, feed, seen, valid, history, old, lines, coreLog>>

-----------------------------------------------------------------------------
(* Natural numbers of any size: little-endian sequences of 12-bit limbs    *)
(* with no leading zero limb.  Python integers and the mantissas of floats *)
(* are wider than TLC's machine integers.                                  *)

RECURSIVE Pow2(_)
Pow2(n) == IF n = 0 THEN 1 ELSE 2 * Pow2(n - 1)

RECURSIVE Pow10(_)
Pow10(n) == IF n = 0 THEN 1 ELSE 10 * Pow10(n - 1)

LimbBase == Pow2(12)

RECURSIVE BigNorm(_)
BigNorm(a) ==
    IF a = <<>> THEN a
    ELSE IF a[Len(a)] = 0 THEN BigNorm(SubSeq(a, 1, Len(a) - 1)) ELSE a

RECURSIVE BigFromInt(_)
BigFromInt(n) ==
    IF n = 0 THEN <<>> ELSE <<n % LimbBase>> \o BigFromInt(n \div LimbBase)

RECURSIVE BigToInt(_)
BigToInt(a) ==
    IF a = <<>> THEN 0 ELSE a[1] + LimbBase * BigToInt(Tail(a))

RECURSIVE BigMulCarry(_, _, _)
BigMulCarry(a, c, carry) ==
    IF a = <<>> THEN BigFromInt(carry)
    ELSE LET t == a[1] * c + carry
         IN  <<t % LimbBase>> \o BigMulCarry(Tail(a), c, t \div LimbBase)

\* a * c for a machine integer 0 <= c < 2^18
BigMulSmall(a, c) == BigNorm(BigMulCarry(a, c, 0))

RECURSIVE BigDivRem(_, _)
BigDivRem(a, d) ==
    IF a = <<>> THEN [q |-> <<>>, r |-> 0]
    ELSE LET hi == BigDivRem(Tail(a), d)
             t  == hi.r * LimbBase + a[1]
         IN  [q |-> <<t \div d>> \o hi.q, r |-> t % d]

\* quotient and remainder of a by a machine integer 0 < d < 2^18
BigDivSmall(a, d) ==
    LET dr == BigDivRem(a, d) IN [q |-> BigNorm(dr.q), r |-> dr.r]

RECURSIVE BigAddCarry(_, _, _)
BigAddCarry(a, b, carry) ==
    IF a = <<>> /\ b = <<>> THEN BigFromInt(carry)
    ELSE LET x == IF a = <<>> THEN 0 ELSE a[1]
             y == IF b = <<>> THEN 0 ELSE b[1]
             t == x + y + carry
         IN  <<t % LimbBase>>
             \o BigAddCarry(IF a = <<>> THEN a ELSE Tail(a),
                            IF b = <<>> THEN b ELSE Tail(b), t \div LimbBase)

BigAdd(a, b) == BigNorm(BigAddCarry(a, b, 0))

RECURSIVE BigSubBorrow(_, _, _)
BigSubBorrow(a, b, borrow) ==
    IF a = <<>> THEN <<>>
    ELSE LET y == (IF b = <<>> THEN 0 ELSE b[1]) + borrow
             t == a[1] - y
         IN  <<IF t < 0 THEN t + LimbBase ELSE t>>
             \o BigSubBorrow(Tail(a), IF b = <<>> THEN b ELSE Tail(b),
                             IF t < 0 THEN 1 ELSE 0)

\* a - b for a >= b
BigSub(a, b) == BigNorm(BigSubBorrow(a, b, 0))

RECURSIVE BigCmpFrom(_, _, _)
BigCmpFrom(a, b, i) ==
    IF i = 0 THEN 0
    ELSE IF a[i] > b[i] THEN 1
    ELSE IF a[i] < b[i] THEN -1
    ELSE BigCmpFrom(a, b, i - 1)

\* -1, 0, 1 as a < b, a = b, a > b
BigCmp(a, b) ==
    IF Len(a) > Len(b) THEN 1
    ELSE IF Len(a) < Len(b) THEN -1
    ELSE BigCmpFrom(a, b, Len(a))

RECURSIVE BigMul(_, _)
BigMul(a, b) ==
    IF b = <<>> \/ a = <<>> THEN <<>>
    ELSE BigAdd(BigMulSmall(a, b[1]), BigNorm(<<0>> \o BigMul(a, Tail(b))))

RECURSIVE IntBitLen(_)
IntBitLen(n) == IF n = 0 THEN 0 ELSE 1 + IntBitLen(n \div 2)

BigBitLen(a) ==
    IF a = <<>> THEN 0 ELSE 12 * (Len(a) - 1) + IntBitLen(a[Len(a)])

BigShiftLeft(a, s) ==
    IF a = <<>> THEN a
    ELSE [i \in 1..(s \div 12) |-> 0] \o BigMulSmall(a, Pow2(s % 12))

BigShiftRight(a, s) ==
    IF s \div 12 >= Len(a) THEN <<>>
    ELSE BigDivSmall(SubSeq(a, (s \div 12) + 1, Len(a)), Pow2(s % 12)).q

BigIsOdd(a) == a # <<>> /\ a[1] % 2 = 1

\* a / 2^s rounded to the nearest integer, ties to even; sticky says that a
\* stands for a value slightly above a (a non-zero remainder was dropped)
RoundShift(a, s, sticky) ==
    IF s = 0 THEN a
    ELSE LET q    == BigShiftRight(a, s)
             r    == BigSub(a, BigShiftLeft(q, s))
             half == BigShiftLeft(<<1>>, s - 1)
             c    == BigCmp(r, half)
             up   == c > 0 \/ (c = 0 /\ (sticky \/ BigIsOdd(q)))
         IN  IF up THEN BigAdd(q, <<1>>) ELSE q

-----------------------------------------------------------------------------
(* binary64: the value m * 2^e with m < 2^53 (or m = 2^53 after a carry).  *)

FFromInt(n) == [m |-> BigFromInt(n), e |-> 0]

\* the exact value a * 2^e (sticky: and a little more) rounded to 53 bits
FRound(a, e, sticky) ==
    LET len == BigBitLen(a)
    IN  IF len <= 53 THEN [m |-> a, e |-> e]
        ELSE [m |-> RoundShift(a, len - 53, sticky), e |-> e + (len - 53)]

\* x * y
FMul(x, y) == FRound(BigMul(x.m, y.m), x.e + y.e, FALSE)

\* x + y
FAdd(x, y) ==
    LET e == IF x.e < y.e THEN x.e ELSE y.e
    IN  FRound(BigAdd(BigShiftLeft(x.m, x.e - e), BigShiftLeft(y.m, y.e - e)), e, FALSE)

\* -1, 0, 1 as x < y, x == y, x > y
FCmp(x, y) ==
    LET e == IF x.e < y.e THEN x.e ELSE y.e
    IN  BigCmp(BigShiftLeft(x.m, x.e - e), BigShiftLeft(y.m, y.e - e))

\* x / float(d) for an integer 0 < d < 2^18: 80 extra quotient bits, then rounded
FDivInt(x, d) ==
    LET dr == BigDivSmall(BigShiftLeft(x.m, 80), d)
    IN  FRound(dr.q, x.e - 80, dr.r # 0)

\* int(x): truncation toward zero, as '%i' % x converts its argument
FTrunc(x) ==
    IF x.e >= 0 THEN BigToInt(BigShiftLeft(x.m, x.e))
    ELSE BigToInt(BigShiftRight(x.m, 0 - x.e))

\* the digits of '%.<k>f' % x as the integer round(x * 10^k): the exact binary
\* value correctly rounded, ties to even
FFixed(x, k) ==
    LET t == BigMulSmall(x.m, Pow10(k))
    IN  IF x.e >= 0 THEN BigToInt(BigShiftLeft(t, x.e))
        ELSE BigToInt(RoundShift(t, 0 - x.e, FALSE))

-----------------------------------------------------------------------------
(* Bit operations on Python integers.                                      *)

RECURSIVE BitAnd(_, _)
BitAnd(a, b) ==
    IF a = 0 \/ b = 0 THEN 0
    ELSE (a % 2) * (b % 2) + 2 * BitAnd(a \div 2, b \div 2)

RECURSIVE BitOr(_, _)
BitOr(a, b) ==
    IF a = 0 THEN b
    ELSE IF b = 0 THEN a
    ELSE (IF a % 2 = 1 \/ b % 2 = 1 THEN 1 ELSE 0) + 2 * BitOr(a \div 2, b \div 2)

RECURSIVE SumSeq(_)
SumSeq(s) == IF s = <<>> THEN 0 ELSE s[1] + SumSeq(Tail(s))

\* A call's outcome: the value returned, or the exception it raised.
Return(v) == [exc |-> "none", val |-> v]
Raise(x) == [exc |-> x, val |-> <<>>]

-----------------------------------------------------------------------------
(* gm1020.py: the 8-byte command frames.  Python index i is index i + 1.   *)

message_bits ==
    [ blank      |-> <<0, 0, 0, 0, 0, 0, 0, 0>>,
      status     |-> <<30, 0, 0, 0, 0, 0, 0, 30>>,
      dump_mem   |-> <<45, 0, 0, 0, 0, 0, 0, 45>>,
      live_start |-> <<60, 1, 0, 0, 0, 0, 0, 61>>,
      live_stop  |-> <<60, 2, 0, 0, 0, 0, 0, 62>>,
      clear_mem  |-> <<75, 0, 0, 0, 0, 0, 0, 75>>,
      configure  |-> <<90, 0, 0, 0, 0, 0, 0, 0>>,
      auto_power |-> <<0, 1, 0, 0, 0, 0, 0, 0>>,
      auto_log   |-> <<0, 0, 0, 1, 0, 0, 0, 0>>,
      fahrenheit |-> <<0, 0, 0, 0, 0, 0, 1, 0>>,
      footcandle |-> <<0, 0, 0, 0, 0, 0, 2, 0>> ]

\* a faulty variant: the sum starts at the second byte
checksum_from_second(message) ==
    [message EXCEPT ![Len(message)] =
        SumSeq(SubSeq(message, 2, Len(message) - 1)) % 256]

\* message[-1] = sum(message[:-1]) % 256
checksum(message) ==
    [message EXCEPT ![Len(message)] =
        SumSeq(SubSeq(message, 1, Len(message) - 1)) % 256]

\* [b1 | b2 for b1,b2 in zip(m1, m2)], after assert len(m1) == len(m2)
byte_add(m1, m2) ==
    IF Len(m1) # Len(m2) THEN Raise("AssertionError")
    ELSE Return([i \in 1..Len(m1) |-> BitOr(m1[i], m2[i])])

power_time_set(message, minutes) ==
    IF ~(1 <= minutes /\ minutes <= 240) THEN Raise("AssertionError")
    ELSE Return([message EXCEPT ![3] = minutes])

\* a faulty variant: the two interval bytes stored low byte first
logging_time_set_low_first(message, seconds) ==
    IF ~(1 <= seconds /\ seconds <= 3600) THEN Raise("AssertionError")
    ELSE Return([message EXCEPT ![5] = seconds % 256, ![6] = seconds \div 256])

logging_time_set(message, seconds) ==
    IF ~(1 <= seconds /\ seconds <= 3600) THEN Raise("AssertionError")
    ELSE LET high == seconds \div 256
             low  == seconds % 256
         IN  Return([message EXCEPT ![5] = high, ![6] = low])

SettingKeys == <<"auto_power", "auto_log", "fahrenheit", "footcandle">>

\* the loop of generate_settings over the four flag names, from the k-th on
RECURSIVE AddFlags(_, _, _)
AddFlags(message, kwargs, k) ==
    IF k > Len(SettingKeys) THEN Return(message)
    ELSE LET key == SettingKeys[k]
         IN  IF key \in DOMAIN kwargs /\ kwargs[key] = TRUE
             THEN LET r == byte_add(message, message_bits[key])
                  IN  IF r.exc # "none" THEN r ELSE AddFlags(r.val, kwargs, k + 1)
             ELSE AddFlags(message, kwargs, k + 1)

\* kwargs: a function from some of the keyword names to their values
generate_settings(kwargs) ==
    LET flagged      == AddFlags(message_bits.configure, kwargs, 1)
        power_time   == IF "power_time" \in DOMAIN kwargs
                        THEN kwargs["power_time"] ELSE 5
        logging_time == IF "logging_time" \in DOMAIN kwargs
                        THEN kwargs["logging_time"] ELSE 300
    IN  IF flagged.exc # "none" THEN flagged
        ELSE LET p == power_time_set(flagged.val, power_time)
             IN  IF p.exc # "none" THEN p
                 ELSE LET l == logging_time_set(p.val, logging_time)
                      IN  IF l.exc # "none" THEN l
                          ELSE Return(checksum(l.val))

\* a faulty variant: only the length of the reply is compared
send_and_confirm_length_only(message, reply) == Len(message) = Len(reply)

\* message == reply, the comparison send_and_confirm returns
send_and_confirm(message, reply) == message = reply

\* a faulty variant: the logging interval read from its low byte alone
retrieve_settings_low_byte(reply) ==
    IF Len(reply) < 8 THEN Raise("IndexError")
    ELSE LET fahrenheit == BitAnd(reply[8], 1) # 0
             footcandle == BitAnd(reply[8], 2) # 0
         IN  Return([ samples      |-> 256 * reply[1] + reply[2],
                      auto_power   |-> reply[3] # 0,
                      power_time   |-> reply[4],
                      auto_log     |-> reply[5] # 0,
                      logging_time |-> reply[7],
                      fahrenheit   |-> fahrenheit,
                      centigrade   |-> ~fahrenheit,
                      footcandle   |-> footcandle,
                      lux          |-> ~footcandle ])

\* The decoding part of retrieve_settings: reply is what listen() returned.
\* Indexing past a short reply raises IndexError.
retrieve_settings(reply) ==
    IF Len(reply) < 8 THEN Raise("IndexError")
    ELSE LET fahrenheit == BitAnd(reply[8], 1) # 0
             footcandle == BitAnd(reply[8], 2) # 0
         IN  Return([ samples      |-> 256 * reply[1] + reply[2],
                      auto_power   |-> reply[3] # 0,
                      power_time   |-> reply[4],
                      auto_log     |-> reply[5] # 0,
                      logging_time |-> 256 * reply[6] + reply[7],
                      fahrenheit   |-> fahrenheit,
                      centigrade   |-> ~fahrenheit,
                      footcandle   |-> footcandle,
                      lux          |-> ~footcandle ])

\* A formatted number: the conversion used and the digits it printed
\* ('%.1f' prints digits \div 10, a point, digits % 10; '%i' prints digits).
Formatted(fmt, digits) == [fmt |-> fmt, digits |-> digits]

gm_decode_lux(b1, b2) ==
    LET reading == b1 * 256 + b2
        lux0    == FDivInt(FFromInt(BitAnd(reading, 4095)), 10)
        lux1    == IF BitAnd(reading, 16384) # 0
                   THEN FMul(lux0, FFromInt(10)) ELSE lux0
        lux2    == IF BitAnd(reading, 32768) # 0
                   THEN FMul(lux1, FFromInt(100)) ELSE lux1
        decimal == BitAnd(reading, 16384) = 0 /\ BitAnd(reading, 32768) = 0
    IN  IF decimal THEN Formatted("%.1f", FFixed(lux2, 1))
        ELSE Formatted("%i", FTrunc(lux2))

decode_temp(b1, b2) ==
    Formatted("%.1f", FFixed(FDivInt(FFromInt(b1 * 256 + b2), 10), 1))

-----------------------------------------------------------------------------
(* SpecFn: the pure functions of gm1020.py applied to bounded inputs.      *)

\* shutdown-timer arguments: the range 1..240, its edges and both outsides
TimerInputs == {0, 1, 2, 5, 30, 127, 128, 239, 240, 241, 255}

\* logging-interval arguments: the range 1..3600, the byte carries, outsides
IntervalInputs ==
    {0, 1, 2, 255, 256, 257, 300, 511, 512, 1000, 3583, 3584, 3599, 3600, 3601}

\* high bytes of a packed reading: every combination of bits 12..15 with
\* low, middle and high magnitude nibbles
HighByteInputs ==
    {16 * f + n : f \in 0..15, n \in {0, 1, 9, 15}}

LowByteInputs == 0..255

NoCall == [op |-> "none", arg |-> <<>>, out |-> <<>>]

\* the variables of the invocation model, at rest
GmAtRest ==
    /\ opts = <<>>
    /\ pc = "none"
    /\ conf = <<>>
    /\ written = <<>>
    /\ isOpen = FALSE
    /\ gen = "none"
    /\ rows = <<>>
    /\ dumped = <<>>
    /\ confirm = <<>>
    /\ fault = "none"

\* the variables of the synchronizer model, at rest
SyncAtRest ==
    /\ source = <<>>
    /\ wire = <<>>
    /\ err = TRUE
    /\ comTimeout = "frame"
    /\ frames = <<>>
    /\ rejected = 0
    /\ readings = <<>>
    /\ utFault = "none"

\* the variables of the model of ut382.py core, at rest
CoreAtRest ==
    /\ coreOpts = <<>>
    /\ feed = <<>>
    /\ seen = 0
    /\ valid = 0
    /\ history = <<>>
    /\ old = <<>>
    /\ lines = <<>>
    /\ coreLog = <<>>

InitFn ==
    /\ fnCall = NoCall
    /\ GmAtRest
    /\ SyncAtRest
    /\ CoreAtRest

\* one application per behaviour
CallGenerateSettings ==
    /\ fnCall = NoCall
    /\ \E ap \in BOOLEAN, al \in BOOLEAN, fa \in BOOLEAN, fc \in BOOLEAN,
          m \in TimerInputs, s \in IntervalInputs :
          LET kwargs == [ auto_power |-> ap, auto_log |-> al, fahrenheit |-> fa,
                          footcandle |-> fc, power_time |-> m, logging_time |-> s ]
          IN  fnCall' = [ op  |-> "generate_settings", arg |-> kwargs,
                          out |-> generate_settings(kwargs) ]
    /\ UNCHANGED <<gmVars, syncVars, coreVars>>

CallDecodeLux ==
    /\ fnCall = NoCall
    /\ \E b1 \in HighByteInputs, b2 \in LowByteInputs :
          fnCall' = [ op |-> "decode_lux", arg |-> <<b1, b2>>,
                      out |-> gm_decode_lux(b1, b2) ]
    /\ UNCHANGED <<gmVars, syncVars, coreVars>>

NextFn == CallGenerateSettings \/ CallDecodeLux

vars ==
    <<fnCall, opts, pc, conf, written, isOpen, gen, rows, dumped, confirm, fault,
      source, wire, err, comTimeout, frames, rejected, readings, utFault,
      coreOpts, feed, seen, valid, history, old, lines, coreLog>>

SpecFn == InitFn /\ [][NextFn]_vars

-----------------------------------------------------------------------------
(* Properties of the pure functions, under SpecFn.                         *)

IsGenerate == fnCall.op = "generate_settings"

InRange(kwargs) ==
    /\ 1 <= kwargs.power_time /\ kwargs.power_time <= 240
    /\ 1 <= kwargs.logging_time /\ kwargs.logging_time <= 3600

Bit(b) == IF b THEN 1 ELSE 0

\* C5: generate_settings returns the configure template 0x5A with the bitmask
\* of each enabled flag, the timer byte m, the interval bytes s div 256 and
\* s mod 256 and the checksum over the finished frame; auto-shutdown and
\* fahrenheit with m = 30, s = 300 give 5A 01 1E 00 01 2C 01 A7; a timer or
\* interval out of range is rejected and no frame is produced.
C5_GenerateSettings ==
    IsGenerate =>
        LET a == fnCall.arg
            f == fnCall.out.val
        IN  /\ InRange(a) =>
                /\ fnCall.out.exc = "none"
                /\ Len(f) = 8
                /\ f[1] = 90
                /\ f[2] = Bit(a.auto_power)
                /\ f[3] = a.power_time
                /\ f[4] = Bit(a.auto_log)
                /\ f[5] = a.logging_time \div 256
                /\ f[6] = a.logging_time % 256
                /\ f[7] = Bit(a.fahrenheit) + 2 * Bit(a.footcandle)
                /\ f[8] = (f[1] + f[2] + f[3] + f[4] + f[5] + f[6] + f[7]) % 256
            /\ ~InRange(a) => fnCall.out.exc = "AssertionError" /\ f = <<>>
            /\ ( a = [ auto_power |-> TRUE, auto_log |-> FALSE, fahrenheit |-> TRUE,
                       footcandle |-> FALSE, power_time |-> 30, logging_time |-> 300 ]
                 => f = <<90, 1, 30, 0, 1, 44, 1, 167>> )

C5_Witness ==
    /\ IsGenerate
    /\ fnCall.arg.auto_power /\ fnCall.arg.fahrenheit
    /\ ~fnCall.arg.auto_log /\ ~fnCall.arg.footcandle
    /\ fnCall.arg.power_time = 30 /\ fnCall.arg.logging_time = 300
    /\ fnCall.out.val = <<90, 1, 30, 0, 1, 44, 1, 167>>

\* the six settings of a decoded status reply agree with the keyword arguments
SameSettings(decoded, a) ==
    /\ decoded.auto_power = a.auto_power
    /\ decoded.power_time = a.power_time
    /\ decoded.auto_log = a.auto_log
    /\ decoded.logging_time = a.logging_time
    /\ decoded.fahrenheit = a.fahrenheit
    /\ decoded.footcandle = a.footcandle

\* C6 as stated: decoding the configure frame itself with the status-reply
\* decode returns the settings that were encoded.
C6_RoundTripSameBytes ==
    (IsGenerate /\ InRange(fnCall.arg)) =>
        LET d == retrieve_settings(fnCall.out.val)
        IN  d.exc = "none" /\ SameSettings(d.val, fnCall.arg)

\* stored-sample count bytes a status reply may carry in front of the settings
CountByteInputs == {0, 1, 7, 255}

\* C6 (amended): the six setting bytes that generate_settings writes at bytes
\* 1..6 of the configure frame, carried at bytes 2..7 of a status reply (after
\* the two stored-sample count bytes), decode to the settings that were
\* encoded, and the count decodes from the two leading bytes alone.
C6_RoundTripShifted ==
    (IsGenerate /\ InRange(fnCall.arg)) =>
        \A c1 \in CountByteInputs, c2 \in CountByteInputs :
            LET d == retrieve_settings(<<c1, c2>> \o SubSeq(fnCall.out.val, 2, 7))
            IN  /\ d.exc = "none"
                /\ SameSettings(d.val, fnCall.arg)
                /\ d.val.samples = 256 * c1 + c2

C6_Witness ==
    /\ IsGenerate /\ InRange(fnCall.arg)
    /\ fnCall.arg.logging_time = 3600 /\ fnCall.arg.power_time = 240
    /\ fnCall.arg.auto_log /\ fnCall.arg.footcandle /\ ~fnCall.arg.auto_power
    /\ SameSettings(retrieve_settings(<<0, 7>> \o SubSeq(fnCall.out.val, 2, 7)).val,
                    fnCall.arg)

\* C9: packed-intensity decode of v = 256*b1 + b2, n = v mod 4096: bits 14 and
\* 15 clear give n/10 with one decimal digit (00 0A gives 1.0); bit 14 alone
\* gives the integer 10 * (n/10) = n with no decimal digit; bit 15 alone gives
\* the integer 100 * (n/10) = 10 * n with no decimal digit; with both set (the
\* meter never sends it) only the missing decimal digit is required; bits 12
\* and 13 never change the result.
C9_PackedIntensity ==
    fnCall.op = "decode_lux" =>
        LET b1  == fnCall.arg[1]
            b2  == fnCall.arg[2]
            n   == (256 * b1 + b2) % 4096
            b14 == (b1 \div 64) % 2 = 1
            b15 == (b1 \div 128) % 2 = 1
        IN  /\ (~b14 /\ ~b15) => fnCall.out = Formatted("%.1f", n)
            /\ (b14 /\ ~b15) => fnCall.out = Formatted("%i", n)
            /\ (b15 /\ ~b14) => fnCall.out = Formatted("%i", 10 * n)
            /\ (b14 \/ b15) => fnCall.out.fmt = "%i"
            /\ (b1 = 0 /\ b2 = 10) => fnCall.out = Formatted("%.1f", 10)
            /\ fnCall.out = gm_decode_lux(b1 - 16 * ((b1 \div 16) % 4), b2)

-----------------------------------------------------------------------------
(* SpecGm: one invocation of gm1020.py, from main after the port is open   *)
(* to the exit of the process.  Every read of the channel draws its reply  *)
(* from a bounded set; the options are drawn once, in Init.                *)

MaxDump == 1     \* 2-byte pairs the meter delivers to one memory dump
MaxLive == 1     \* readings one live stream yields before it is stopped

\* options.unit as the set of its tokens; "" stands for None, 0 for not given
UnitInputs == {{}, {"F"}, {"fc", "C"}}
ShutdownInputs == {"", "no"}
ShutdownTimerInputs == {0, 240}
LoggingInputs == {"", "start"}
LoggingTimerInputs == {0, 3600}

OptionInputs ==
    [ download : BOOLEAN, wipe : BOOLEAN, monitor : BOOLEAN, show_setup : {FALSE},
      unit : UnitInputs, shutdown : ShutdownInputs,
      shutdown_timer : ShutdownTimerInputs,
      logging : LoggingInputs, logging_timer : LoggingTimerInputs ]

\* options._get_setup and options._push_setup as load_options derives them
get_setup(o) ==
    \/ o.download \/ o.show_setup \/ o.unit # {} \/ o.shutdown # ""
    \/ o.shutdown_timer # 0 \/ o.logging # "" \/ o.logging_timer # 0

push_setup(o) ==
    \/ o.unit # {} \/ o.shutdown # "" \/ o.shutdown_timer # 0
    \/ o.logging # "" \/ o.logging_timer # 0

\* what listen() may return to the status query: nothing, a short read, a
\* reply with timer 30, interval 300 and fahrenheit, a reply with 1900
\* samples, timer 0, interval 1 and footcandle
StatusReplyInputs ==
    { <<>>,
      <<0, 2, 1>>,
      <<0, 2, 1, 30, 0, 1, 44, 1>>,
      <<7, 108, 0, 0, 1, 0, 1, 2>> }

\* what listen(2) may return during a dump: nothing, one byte, a pair
DumpPairInputs == { <<0, 10>>, <<128, 23>> }
DumpReplyInputs == { <<>>, <<0>>, <<255, 255>> } \cup DumpPairInputs

\* what listen() may return after a write: the echo, nothing, a short read,
\* eight bytes that differ
EchoReplies(frame) ==
    { frame, <<>>, SubSeq(frame, 1, 7), [frame EXCEPT ![8] = (frame[8] + 1) % 256] }

\* what listen() may return in the live loop: a sample, a timeout, seven bytes
\* with the sentinels in place, seven bytes with a wrong first byte
LiveReplyInputs ==
    { <<51, 34, 0, 10, 1, 0, 253, 17>>,
      <<>>,
      <<51, 34, 0, 10, 1, 0, 253>>,
      <<0, 34, 128, 23, 1, 0, 253>> }

NoConf == [empty |-> TRUE]
NoGen == [st |-> "none", data |-> <<>>]
NoConfirm == [op |-> "none", frame |-> <<>>, reply |-> <<>>, ok |-> FALSE]

\* a faulty variant: the wipe block stands before the download block
RECURSIVE StepFrom_wipe_first(_, _)
StepFrom_wipe_first(k, o) ==
    IF k = 1 THEN (IF get_setup(o) THEN "retrieve" ELSE StepFrom_wipe_first(2, o))
    ELSE IF k = 2 THEN (IF o.wipe THEN "wipe" ELSE StepFrom_wipe_first(4, o))
    ELSE IF k = 4 THEN (IF o.download THEN "dump_start" ELSE StepFrom_wipe_first(3, o))
    ELSE IF k = 3 THEN (IF push_setup(o) THEN "push" ELSE StepFrom_wipe_first(5, o))
    ELSE IF k = 5 THEN (IF o.monitor THEN "live_start" ELSE "cleanup")
    ELSE "cleanup"

\* the step of core that follows step k: its if-statements in source order
RECURSIVE StepFrom(_, _)
StepFrom(k, o) ==
    IF k = 1 THEN (IF get_setup(o) THEN "retrieve" ELSE StepFrom(2, o))
    ELSE IF k = 2 THEN (IF o.download THEN "dump_start" ELSE StepFrom(3, o))
    ELSE IF k = 3 THEN (IF o.wipe THEN "wipe" ELSE StepFrom(4, o))
    ELSE IF k = 4 THEN (IF push_setup(o) THEN "push" ELSE StepFrom(5, o))
    ELSE IF k = 5 THEN (IF o.monitor THEN "live_start" ELSE "cleanup")
    ELSE "cleanup"

InitGm ==
    /\ fnCall = NoCall
    /\ SyncAtRest
    /\ CoreAtRest
    /\ opts \in OptionInputs
    /\ pc = StepFrom(1, opts)
    /\ conf = NoConf
    /\ written = <<>>
    /\ isOpen = TRUE
    /\ gen = NoGen
    /\ rows = <<>>
    /\ dumped = <<>>
    /\ confirm = NoConfirm
    /\ fault = "none"

\* send(message): the bytes go out on the open channel
send(message) == written' = Append(written, message)

\* conf = retrieve_settings(): status query, read, decode
RetrieveSettings ==
    /\ pc = "retrieve"
    /\ send(message_bits.status)
    /\ \E reply \in StatusReplyInputs :
          LET r == retrieve_settings(reply)
          IN  IF r.exc # "none"
              THEN /\ fault' = r.exc
                   /\ pc' = "except"
                   /\ conf' = conf
              ELSE /\ conf' = r.val
                   /\ pc' = StepFrom(2, opts)
                   /\ fault' = fault
    /\ UNCHANGED <<fnCall, syncVars, coreVars, opts, isOpen, gen, rows, dumped, confirm>>

\* the first next() on dump_memory(): the dump command goes out
DumpStart ==
    /\ pc = "dump_start"
    /\ send(message_bits.dump_mem)
    /\ pc' = "dump_read"
    /\ UNCHANGED <<fnCall, syncVars, coreVars, opts, conf, isOpen, gen, rows, dumped, confirm, fault>>

\* one iteration of dump_memory's loop and, when it yields, of core's loop
\* body: the row "tick <tab> lux" with tick = i * rate + download_offset (0)
DumpRead ==
    /\ pc = "dump_read"
    /\ \E reply \in DumpReplyInputs :
          IF reply = <<>>
          THEN /\ pc' = StepFrom(3, opts)
               /\ UNCHANGED <<rows, dumped, fault>>
          ELSE IF Len(reply) # 2
          THEN /\ fault' = "ValueError"
               /\ pc' = "except"
               /\ UNCHANGED <<rows, dumped>>
          ELSE IF reply[1] = 255 /\ reply[2] = 255
          THEN /\ pc' = StepFrom(3, opts)
               /\ UNCHANGED <<rows, dumped, fault>>
          ELSE /\ Len(dumped) < MaxDump
               /\ dumped' = Append(dumped, reply)
               /\ rows' = Append(rows, [ tick |-> Len(rows) * conf.logging_time,
                                         lux  |-> gm_decode_lux(reply[1], reply[2]) ])
               /\ pc' = "dump_read"
               /\ fault' = fault
    /\ UNCHANGED <<fnCall, syncVars, coreVars, opts, conf, written, isOpen, gen, confirm>>

\* status = send_and_confirm(message_bits['clear_mem']) and what core does with it
Wipe ==
    /\ pc = "wipe"
    /\ send(message_bits.clear_mem)
    /\ \E reply \in EchoReplies(message_bits.clear_mem) :
          LET status == send_and_confirm(message_bits.clear_mem, reply)
          IN  /\ confirm' = [ op |-> "wipe", frame |-> message_bits.clear_mem,
                              reply |-> reply, ok |-> status ]
              /\ conf' = IF ~status THEN conf
                         ELSE IF "samples" \in DOMAIN conf
                         THEN [conf EXCEPT !.samples = 0]
                         ELSE [samples |-> 0]
    /\ pc' = StepFrom(4, opts)
    /\ UNCHANGED <<fnCall, syncVars, coreVars, opts, isOpen, gen, rows, dumped, fault>>

\* a faulty variant: a logging timer that is not given falls back to 300
apply_options_default_timer(c, o) ==
    LET c1 == IF "fc" \in o.unit
              THEN [c EXCEPT !.footcandle = TRUE, !.lux = FALSE] ELSE c
        c2 == IF "lux" \in o.unit
              THEN [c1 EXCEPT !.footcandle = FALSE, !.lux = TRUE] ELSE c1
        c3 == IF "F" \in o.unit
              THEN [c2 EXCEPT !.fahrenheit = TRUE, !.centigrade = FALSE] ELSE c2
        c4 == IF "C" \in o.unit
              THEN [c3 EXCEPT !.fahrenheit = FALSE, !.centigrade = TRUE] ELSE c3
        c5 == IF o.shutdown # ""
              THEN [c4 EXCEPT !.auto_power = (o.shutdown = "yes")] ELSE c4
        c6 == IF o.shutdown_timer # 0
              THEN [c5 EXCEPT !.power_time = o.shutdown_timer] ELSE c5
        c7 == IF o.logging # ""
              THEN [c6 EXCEPT !.auto_log = (o.logging = "start")] ELSE c6
    IN  [c7 EXCEPT !.logging_time = IF o.logging_timer # 0 THEN o.logging_timer ELSE 300]

\* core's option blocks: unit, shutdown, shutdown_timer, logging, logging_timer
apply_options(c, o) ==
    LET c1 == IF "fc" \in o.unit
              THEN [c EXCEPT !.footcandle = TRUE, !.lux = FALSE] ELSE c
        c2 == IF "lux" \in o.unit
              THEN [c1 EXCEPT !.footcandle = FALSE, !.lux = TRUE] ELSE c1
        c3 == IF "F" \in o.unit
              THEN [c2 EXCEPT !.fahrenheit = TRUE, !.centigrade = FALSE] ELSE c2
        c4 == IF "C" \in o.unit
              THEN [c3 EXCEPT !.fahrenheit = FALSE, !.centigrade = TRUE] ELSE c3
        c5 == IF o.shutdown # ""
              THEN [c4 EXCEPT !.auto_power = (o.shutdown = "yes")] ELSE c4
        c6 == IF o.shutdown_timer # 0
              THEN [c5 EXCEPT !.power_time = o.shutdown_timer] ELSE c5
        c7 == IF o.logging # ""
              THEN [c6 EXCEPT !.auto_log = (o.logging = "start")] ELSE c6
    IN  IF o.logging_timer # 0
        THEN [c7 EXCEPT !.logging_time = o.logging_timer] ELSE c7

\* the option blocks and send_and_confirm(generate_settings(**conf))
PushSetup ==
    /\ pc = "push"
    /\ conf' = apply_options(conf, opts)
    /\ LET r == generate_settings(conf')
       IN  IF r.exc # "none"
           THEN /\ fault' = r.exc
                /\ pc' = "except"
                /\ UNCHANGED <<written, confirm>>
           ELSE /\ send(r.val)
                /\ \E reply \in EchoReplies(r.val) :
                      confirm' = [ op |-> "push", frame |-> r.val, reply |-> reply,
                                   ok |-> send_and_confirm(r.val, reply) ]
                /\ pc' = StepFrom(5, opts)
                /\ fault' = fault
    /\ UNCHANGED <<fnCall, syncVars, coreVars, opts, isOpen, gen, rows, dumped>>

\* The body of live_monitor's try block up to the yield, for one reply.  The
\* sentinel test reads reply[0], reply[1], reply[4], reply[7] left to right and
\* stops at the first that differs; an index past the end raises IndexError.
live_sample(reply) ==
    LET n == Len(reply)
        sentinels ==
            IF n < 1 THEN "IndexError"
            ELSE IF reply[1] # 51 THEN "unknown"
            ELSE IF n < 2 THEN "IndexError"
            ELSE IF reply[2] # 34 THEN "unknown"
            ELSE IF n < 5 THEN "IndexError"
            ELSE IF reply[5] # 1 THEN "unknown"
            ELSE IF n < 8 THEN "IndexError"
            ELSE IF reply[8] # 17 THEN "unknown"
            ELSE "known"
    IN  IF sentinels = "IndexError" \/ n < 7 THEN Raise("IndexError")
        ELSE Return([ C   |-> decode_temp(reply[6], reply[7]),
                      lux |-> gm_decode_lux(reply[3], reply[4]) ])

\* the statements after live_monitor's loop; the generator then returns, the
\* for loop of core ends and core returns to main
live_break ==
    /\ send(message_bits.live_stop)
    /\ gen' = [st |-> "done", data |-> <<>>]
    /\ pc' = "cleanup"

\* the first next() on live_monitor(): the live-start command goes out
LiveStart ==
    /\ pc = "live_start"
    /\ send(message_bits.live_start)
    /\ gen' = [st |-> "running", data |-> <<>>]
    /\ pc' = "live_read"
    /\ UNCHANGED <<fnCall, syncVars, coreVars, opts, conf, isOpen, rows, dumped, confirm, fault>>

\* one iteration of live_monitor's loop: a reply is read and decoded and a
\* reading is yielded, or an exception inside the try block ends the loop
LiveRead ==
    /\ pc = "live_read"
    /\ \E reply \in LiveReplyInputs :
          LET r == live_sample(reply)
          IN  IF r.exc # "none"
              THEN live_break
              ELSE /\ Len(rows) - Len(dumped) < MaxLive
                   /\ gen' = [st |-> "suspended", data |-> r.val]
                   /\ pc' = "live_write"
                   /\ UNCHANGED written
    /\ UNCHANGED <<fnCall, syncVars, coreVars, opts, conf, isOpen, rows, dumped, confirm, fault>>

\* the read fails, or the interrupt arrives, while live_monitor is inside
\* listen(): the bare except of the loop catches either
LiveReadInterrupted ==
    /\ pc = "live_read"
    /\ live_break
    /\ UNCHANGED <<fnCall, syncVars, coreVars, opts, conf, isOpen, rows, dumped, confirm, fault>>

\* core's loop body: the row is written and the generator resumed
LiveWrite ==
    /\ pc = "live_write"
    /\ rows' = Append(rows, gen.data)
    /\ gen' = [st |-> "running", data |-> <<>>]
    /\ pc' = "live_read"
    /\ UNCHANGED <<fnCall, syncVars, coreVars, opts, conf, written, isOpen, dumped, confirm, fault>>

\* the interrupt arrives (or the write of the row fails) while core's loop
\* body runs and the generator is suspended at its yield: the exception
\* leaves core
LiveWriteInterrupted ==
    /\ pc = "live_write"
    /\ fault' = "KeyboardInterrupt"
    /\ pc' = "except"
    /\ UNCHANGED <<fnCall, syncVars, coreVars, opts, conf, written, isOpen, gen, rows, dumped, confirm>>

\* main's except clause: cleanup(), then raise
Except ==
    /\ pc = "except"
    /\ isOpen' = FALSE
    /\ pc' = "exit"
    /\ UNCHANGED <<fnCall, syncVars, coreVars, opts, conf, written, gen, rows, dumped, confirm, fault>>

\* main's last statement: cleanup()
Cleanup ==
    /\ pc = "cleanup"
    /\ isOpen' = FALSE
    /\ pc' = "exit"
    /\ UNCHANGED <<fnCall, syncVars, coreVars, opts, conf, written, gen, rows, dumped, confirm, fault>>

\* The suspended generator is closed when the frame that holds it is released,
\* after main's except clause has run: GeneratorExit is raised at the yield,
\* the bare except catches it and the loop breaks; send(live_stop) then
\* writes to the channel only if it is still open.
Finalize ==
    /\ pc = "exit"
    /\ gen.st = "suspended"
    /\ IF isOpen THEN send(message_bits.live_stop) ELSE UNCHANGED written
    /\ gen' = [st |-> "done", data |-> <<>>]
    /\ UNCHANGED <<fnCall, syncVars, coreVars, opts, pc, conf, isOpen, rows, dumped, confirm, fault>>

NextGm ==
    \/ RetrieveSettings
    \/ DumpStart
    \/ DumpRead
    \/ Wipe
    \/ PushSetup
    \/ LiveStart
    \/ LiveRead
    \/ LiveReadInterrupted
    \/ LiveWrite
    \/ LiveWriteInterrupted
    \/ Except
    \/ Cleanup
    \/ Finalize

SpecGm == InitGm /\ [][NextGm]_vars

-----------------------------------------------------------------------------
(* Properties of one invocation of gm1020.py, under SpecGm.                *)

C4_FramesChecksummed ==
    \A i \in 1..Len(written) :
        LET f == written[i]
        IN  /\ Len(f) = 8
            /\ f[8] = (f[1] + f[2] + f[3] + f[4] + f[5] + f[6] + f[7]) % 256

\* all six commands went out in one invocation, configure with timer 240,
\* interval 3600 and a flag set
C4_Witness ==
    /\ \A op \in {30, 45, 75} : \E i \in 1..Len(written) : written[i][1] = op
    /\ \E i \in 1..Len(written) :
          /\ written[i][1] = 90 /\ written[i][3] = 240
          /\ written[i][5] = 14 /\ written[i][6] = 16 /\ written[i][7] = 2
    /\ \E i \in 1..Len(written) : written[i][1] = 60 /\ written[i][2] = 1
    /\ \E i \in 1..Len(written) : written[i][1] = 60 /\ written[i][2] = 2

\* C7: send_and_confirm reports success if and only if the reply is 8 bytes
\* equal byte for byte to the frame sent; a short or empty reply is a failure
\* result, never an exception: the step that confirms leaves no fault and
\* does not enter main's except clause.
C7_ConfirmIffEcho ==
    /\ [](confirm.op # "none" =>
            (confirm.ok <=>
                /\ Len(confirm.reply) = 8
                /\ \A i \in 1..8 : confirm.reply[i] = confirm.frame[i]))
    /\ [][confirm' # confirm => (fault' = "none" /\ pc' # "except")]_vars

\* a wipe answered by a 7-byte read: reported as a failure, core goes on
C7_Witness ==
    /\ confirm.op = "wipe"
    /\ Len(confirm.reply) = 7
    /\ ~confirm.ok
    /\ fault = "none"
    /\ pc \in {"push", "live_start", "cleanup"}
    /\ "samples" \in DOMAIN conf /\ conf.samples # 0

\* C8: dump_memory yields, in order, the decoding of each pair received
\* before the first (0xFF, 0xFF) or the end of the source, nothing after,
\* and ends without a fault whatever number of bytes the source delivers.
C8_DumpMemory ==
    /\ fault # "ValueError"
    /\ Len(SelectSeq(rows, LAMBDA r : "tick" \in DOMAIN r)) = Len(dumped)
    /\ \A i \in 1..Len(dumped) :
          /\ dumped[i] # <<255, 255>>
          /\ rows[i].lux = gm_decode_lux(dumped[i][1], dumped[i][2])

\* C11: an empty or short read never causes a fault by itself: after a read
\* that returned fewer bytes than asked for, the status query, the memory
\* dump, the live loop and the write confirmation end their loop or return a
\* failure result, and the invocation goes on without an exception.
C11_ShortReadNotFatal ==
    fault \notin {"IndexError", "ValueError"}

-----------------------------------------------------------------------------
(* ut382.py: frame validation and the table-driven field decoder.          *)

None == "None"

\* The values of the 7-segment table are kept as strings: "0".."9" are the
\* integers 0..9, the others are the letters, "None" is None.
lcd_7seg ==
    (0 :> None) @@ (123 :> "0") @@ (96 :> "1") @@ (94 :> "2") @@ (124 :> "3")
    @@ (101 :> "4") @@ (61 :> "5") @@ (63 :> "6") @@ (112 :> "7")
    @@ (127 :> "8") @@ (125 :> "9")
    @@ (107 :> "U") @@ (47 :> "b") @@ (119 :> "A") @@ (87 :> "P") @@ (31 :> "E")
    @@ (27 :> "C") @@ (109 :> "d") @@ (110 :> "d") @@ (23 :> "F") @@ (86 :> "?")
    @@ (11 :> "L")

lcd_flag(mask) == (0 :> FALSE) @@ (mask :> TRUE)

\* field : (byte, mask, {bits: value})
lcd_table ==
    [ big_1       |-> [n |-> 1, mask |-> 127, lut |-> lcd_7seg],
      big_10      |-> [n |-> 2, mask |-> 127, lut |-> lcd_7seg],
      big_100     |-> [n |-> 3, mask |-> 127, lut |-> lcd_7seg],
      big_1000    |-> [n |-> 4, mask |-> 127, lut |-> lcd_7seg],
      lil_1       |-> [n |-> 5, mask |-> 127, lut |-> lcd_7seg],
      lil_10      |-> [n |-> 6, mask |-> 127, lut |-> lcd_7seg],
      lil_100     |-> [n |-> 7, mask |-> 127, lut |-> lcd_7seg],
      lil_1000    |-> [n |-> 8, mask |-> 127, lut |-> lcd_7seg],
      big_10ths   |-> [n |-> 2, mask |-> 128, lut |-> lcd_flag(128)],
      big_100ths  |-> [n |-> 3, mask |-> 128, lut |-> lcd_flag(128)],
      big_1000ths |-> [n |-> 4, mask |-> 128, lut |-> lcd_flag(128)],
      mode        |-> [n |-> 11, mask |-> 255,
                       lut |-> (16 :> "hold") @@ (32 :> "max") @@ (64 :> "min")],
      auto        |-> [n |-> 10, mask |-> 2, lut |-> lcd_flag(2)],
      scale       |-> [n |-> 10, mask |-> 240,
                       lut |-> (0 :> "2") @@ (128 :> "20") @@ (192 :> "200")
                               @@ (224 :> "2000") @@ (240 :> "20000")],
      unit        |-> [n |-> 9, mask |-> 12, lut |-> (8 :> "lux") @@ (4 :> "fc")],
      x10         |-> [n |-> 9, mask |-> 1, lut |-> lcd_flag(1)],
      poweroff    |-> [n |-> 11, mask |-> 2, lut |-> lcd_flag(2)],
      batt        |-> [n |-> 9, mask |-> 16, lut |-> lcd_flag(16)],
      rec         |-> [n |-> 11, mask |-> 1, lut |-> lcd_flag(1)],
      usb         |-> [n |-> 9, mask |-> 32, lut |-> lcd_flag(32)],
      menu        |-> [n |-> 0, mask |-> 255,
                       lut |-> (32 :> "usb") @@ (48 :> "apo") @@ (64 :> "rec")
                               @@ (80 :> "code") @@ (96 :> "def")] ]

bitwise_fields == {"mode"}

\* the value decode_lcd_byte stores for field k, b being byte lcd_table[k].n
decode_lcd_field(k, b) ==
    LET lut == lcd_table[k].lut
        b2  == BitAnd(lcd_table[k].mask, b)
    IN  IF k \in bitwise_fields
        THEN {lut[k2] : k2 \in {x \in DOMAIN lut : BitAnd(x, b2) # 0}}
        ELSE IF b2 \in DOMAIN lut THEN lut[b2] ELSE None

\* decode_summary for a reply that holds every byte the table names
decode_summary(reply) ==
    [k \in DOMAIN lcd_table |-> decode_lcd_field(k, reply[lcd_table[k].n + 1])]

\* the pairs loop of decode_raw: i = 1, 3, 5, ... while i < len(bs) and i < 31
RECURSIVE nibble_pairs(_, _)
nibble_pairs(bs, i) ==
    IF i >= Len(bs) \/ i >= 31 THEN <<>>
    ELSE <<BitOr(BitAnd(bs[i], 15), BitAnd(bs[i + 1], 15) * 16)>>
         \o nibble_pairs(bs, i + 2)

\* the checks of decode_raw: weird is non-empty
decode_raw_weird(bs) ==
    \/ Len(bs) # 33
    \/ \E i \in 1..Len(bs) : i <= 30 /\ BitAnd(bs[i], 240) # 48
    \/ (Len(bs) > 30 /\ bs[31] # 13)
    \/ (Len(bs) > 31 /\ bs[32] # 10)

\* a faulty variant: byte 30 is not checked
decode_raw_no_cr(bs) ==
    [ bs2   |-> nibble_pairs(bs, 1),
      weird |-> \/ Len(bs) # 33
                \/ \E i \in 1..Len(bs) : i <= 30 /\ BitAnd(bs[i], 240) # 48
                \/ (Len(bs) > 31 /\ bs[32] # 10) ]

\* returns bs2, bool(weird)
decode_raw(bs) == [bs2 |-> nibble_pairs(bs, 1), weird |-> decode_raw_weird(bs)]

IsDigit(d) == d \in {"0", "1", "2", "3", "4", "5", "6", "7", "8", "9"}

DigitValue(d) ==
    CASE d = "0" -> 0 [] d = "1" -> 1 [] d = "2" -> 2 [] d = "3" -> 3
      [] d = "4" -> 4 [] d = "5" -> 5 [] d = "6" -> 6 [] d = "7" -> 7
      [] d = "8" -> 8 [] d = "9" -> 9

\* a value of lux: None, an int, or a float
LuxNone == [t |-> "None", i |-> 0, f |-> FFromInt(0)]
LuxInt(i) == [t |-> "int", i |-> i, f |-> FFromInt(0)]
LuxFloat(f) == [t |-> "float", i |-> 0, f |-> f]

\* a faulty variant: the thousandths point scales by 0.01
lux_factor_hundredths(k) ==
    IF k = 0 THEN FFromInt(10) ELSE FDivInt(FFromInt(1), Pow10(IF k = 3 THEN 2 ELSE k))

\* the factors of decode_lux in the order it applies them: the literals 0.1,
\* 0.01, 0.001 (the binary64 nearest to 1 / 10^k) and the integer 10
lux_factor(k) == IF k = 0 THEN FFromInt(10) ELSE FDivInt(FFromInt(1), Pow10(k))

\* lux *= factor, for each factor in turn
RECURSIVE lux_times(_, _)
lux_times(lux, ks) ==
    IF ks = <<>> THEN lux
    ELSE lux_times(FMul(lux, lux_factor(Head(ks))), Tail(ks))

\* a faulty variant: the tens digit is not looked at
lux_sentinel_any_tens(digits) == digits[1] = None /\ digits[2] = "0" /\ digits[4] = None

\* decode_lux: digits == [None, 0, 'L', None]
lux_sentinel(digits) == digits = <<None, "0", "L", None>>

\* ut382.py decode_lux.  lux += d * 10**i adds integers below 2^53 exactly;
\* for a letter d it is float + str, a TypeError.
ut_decode_lux(summary) ==
    LET unit   == summary.unit
        digits == <<summary.big_1000, summary.big_100, summary.big_10, summary.big_1>>
        place(j) == IF digits[j] = None THEN 0
                    ELSE DigitValue(digits[j]) * Pow10(4 - j)
        lux0 == FFromInt(place(1) + place(2) + place(3) + place(4))
        ks   == (IF summary.big_10ths THEN <<1>> ELSE <<>>)
                \o (IF summary.big_100ths THEN <<2>> ELSE <<>>)
                \o (IF summary.big_1000ths THEN <<3>> ELSE <<>>)
                \o (IF summary.x10 THEN <<0>> ELSE <<>>)
        lux  == lux_times(lux0, ks)
    IN  IF lux_sentinel(digits)
        THEN Return([lux |-> LuxNone, unit |-> unit])
        ELSE IF \E j \in 1..4 : digits[j] # None /\ ~IsDigit(digits[j])
        THEN Raise("TypeError")
        ELSE IF ~(summary.big_10ths \/ summary.big_100ths \/ summary.big_1000ths)
        THEN Return([lux |-> LuxInt(FTrunc(lux)), unit |-> unit])
        ELSE Return([lux |-> LuxFloat(lux), unit |-> unit])

\* The body of live_monitor's loop for one frame: "skip" for a menu frame, the
\* reading yielded, or the exception decode_lux raised.  warn: the battery
\* warning was written to stderr.
live_monitor_frame(reply) ==
    LET summary == decode_summary(reply)
        warn    == summary.batt
    IN  IF summary.menu # None
        THEN [exc |-> "none", skip |-> TRUE, warn |-> warn, val |-> <<>>]
        ELSE LET r == ut_decode_lux(summary)
             IN  [exc |-> r.exc, skip |-> FALSE, warn |-> warn, val |-> r.val]

-----------------------------------------------------------------------------
(* ut382.py: the byte source, live_raw, live_sync and live_monitor.        *)
(* The wire is the sequence of bytes the meter will send, with GAP marking *)
(* a silence longer than the single byte timeout of live_raw.              *)

MaxBursts == 3

GAP == -1

\* what the meter transmits for 15 LCD bytes: low nibble first, each behind
\* the prefix 0x3, then CR, LF and a last byte
RECURSIVE lcd_nibbles(_)
lcd_nibbles(data) ==
    IF data = <<>> THEN <<>>
    ELSE <<48 + (Head(data) % 16), 48 + (Head(data) \div 16)>>
         \o lcd_nibbles(Tail(data))

meter_frame(data) == lcd_nibbles(data) \o <<13, 10, 85>>

\* 123.4 lux, usb
LcdTenths == <<0, 101, 252, 94, 96, 0, 0, 0, 0, 40, 2, 0, 0, 0, 0>>
\* 2000 x10 fc, hold
LcdTimesTen == <<0, 123, 123, 123, 94, 0, 0, 0, 0, 5, 240, 16, 0, 0, 0>>
\* over range: " 0L "
LcdOverRange == <<0, 0, 11, 123, 0, 0, 0, 0, 0, 8, 0, 0, 0, 0, 0>>
\* the apo menu, battery low
LcdMenu == <<48, 123, 124, 0, 0, 0, 0, 0, 0, 16, 0, 0, 0, 0, 0>>
\* "E" in the units digit, an unknown pattern in the tens, no unit
LcdLetter == <<0, 31, 1, 0, 0, 0, 0, 0, 0, 0, 0, 0, 0, 0, 0>>

Garbage20 == [i \in 1..20 |-> IF i % 2 = 0 THEN 200 + i ELSE 48 + (i % 10)]

BadByte30 == [meter_frame(LcdTenths) EXCEPT ![31] = 10]

BadPrefix == [meter_frame(LcdTimesTen) EXCEPT ![7] = 71]

BurstInputs ==
    { meter_frame(LcdTenths), meter_frame(LcdTimesTen), meter_frame(LcdOverRange),
      meter_frame(LcdMenu), meter_frame(LcdLetter), Garbage20, BadByte30, BadPrefix }

SegmentInputs == BurstInputs \cup {b \o <<GAP>> : b \in BurstInputs}

RECURSIVE Flatten(_)
Flatten(segs) == IF segs = <<>> THEN <<>> ELSE Head(segs) \o Flatten(Tail(segs))

RECURSIVE SkipGaps(_)
SkipGaps(w) == IF w # <<>> /\ Head(w) = GAP THEN SkipGaps(Tail(w)) ELSE w

RECURSIVE ByteRun(_)
ByteRun(w) == IF w = <<>> \/ Head(w) = GAP THEN <<>> ELSE <<Head(w)>> \o ByteRun(Tail(w))

Drop(w, n) == SubSeq(w, n + 1, Len(w))

\* a faulty variant: 33 bytes are taken whatever the silences between them
live_raw_fixed_size(w) ==
    LET bytes == SelectSeq(w, LAMBDA x : x # GAP)
        n     == IF Len(bytes) < 33 THEN Len(bytes) ELSE 33
    IN  [bs |-> SubSeq(bytes, 1, n), rest |-> Drop(bytes, n)]

\* a faulty variant: a burst is cut after 33 bytes
live_raw_cut(w) ==
    LET run  == ByteRun(SkipGaps(w))
        bs   == IF Len(run) > 33 THEN SubSeq(run, 1, 33) ELSE run
        rest == Drop(SkipGaps(w), Len(bs))
    IN  [bs |-> bs, rest |-> IF rest # <<>> /\ Head(rest) = GAP THEN Tail(rest) ELSE rest]

\* a faulty variant: a read that returns nothing does not end the burst
live_raw_joined(w) == [bs |-> SelectSeq(w, LAMBDA x : x # GAP), rest |-> <<>>]

\* live_raw: empty reads before the first byte are ignored, bytes are
\* collected until a read returns nothing, that read ends the burst
live_raw(w) ==
    LET bs   == ByteRun(SkipGaps(w))
        rest == Drop(SkipGaps(w), Len(bs))
    IN  [bs |-> bs, rest |-> IF rest = <<>> THEN rest ELSE Tail(rest)]

\* a faulty variant: the read ends with 32 bytes
RECURSIVE listen_32(_, _)
listen_32(w, got) ==
    IF Len(got) = 32 \/ w = <<>> THEN {[bs |-> got, rest |-> w]}
    ELSE IF Head(w) = GAP
         THEN {[bs |-> got, rest |-> Tail(w)]} \cup listen_32(Tail(w), got)
         ELSE listen_32(Tail(w), Append(got, Head(w)))

\* listen(33) under the frame timeout: the read ends with 33 bytes, or when
\* the timeout expires in a silence; a silence may also be short enough for
\* the read to go on.  got: the bytes read so far.
RECURSIVE listen(_, _)
listen(w, got) ==
    IF Len(got) = 33 \/ w = <<>> THEN {[bs |-> got, rest |-> w]}
    ELSE IF Head(w) = GAP
         THEN {[bs |-> got, rest |-> Tail(w)]} \cup listen(Tail(w), got)
         ELSE listen(Tail(w), Append(got, Head(w)))

InitSync ==
    /\ fnCall = NoCall
    /\ GmAtRest
    /\ CoreAtRest
    /\ \E n \in 0..MaxBursts : \E segs \in [1..n -> SegmentInputs] : source = Flatten(segs)
    /\ wire = source
    /\ err = TRUE
    /\ comTimeout = "frame"
    /\ frames = <<>>
    /\ rejected = 0
    /\ readings = <<>>
    /\ utFault = "none"

\* live_sync yields reply; live_monitor runs its loop body on it
yield(bs, reply, locked) ==
    LET out == live_monitor_frame(reply)
    IN  /\ frames' = Append(frames, [chunk |-> bs, reply |-> reply, locked |-> locked])
        /\ utFault' = out.exc
        /\ readings' = IF out.exc = "none" /\ ~out.skip
                       THEN Append(readings, out.val) ELSE readings

\* one burst of the re-sync loop
ResyncBurst ==
    /\ utFault = "none"
    /\ err
    /\ SkipGaps(wire) # <<>>
    /\ LET r == live_raw(wire)
           d == decode_raw(r.bs)
       IN  /\ wire' = r.rest
           /\ comTimeout' = "byte"
           /\ IF Len(r.bs) # 33
              THEN UNCHANGED <<err, frames, rejected, readings, utFault>>
              ELSE IF d.weird
              THEN /\ rejected' = rejected + 1
                   /\ UNCHANGED <<err, frames, readings, utFault>>
              ELSE /\ err' = FALSE
                   /\ yield(r.bs, d.bs2, FALSE)
                   /\ UNCHANGED rejected
    /\ UNCHANGED <<fnCall, gmVars, coreVars, source>>

\* one fixed size read; after the yield of the re-sync loop it is preceded
\* by com.timeout = timeout
LockedRead ==
    /\ utFault = "none"
    /\ ~err
    /\ \E r \in listen(wire, <<>>) :
         LET d == decode_raw(r.bs)
         IN  /\ wire' = r.rest
             /\ comTimeout' = "frame"
             /\ IF Len(r.bs) # 33
                THEN /\ err' = TRUE
                     /\ UNCHANGED <<frames, rejected, readings, utFault>>
                ELSE IF d.weird
                THEN /\ err' = TRUE
                     /\ rejected' = rejected + 1
                     /\ UNCHANGED <<frames, readings, utFault>>
                ELSE /\ err' = FALSE
                     /\ yield(r.bs, d.bs2, TRUE)
                     /\ UNCHANGED rejected
    /\ UNCHANGED <<fnCall, gmVars, coreVars, source>>

NextSync == ResyncBurst \/ LockedRead

SpecSync == InitSync /\ [][NextSync]_vars

-----------------------------------------------------------------------------
(* Properties of the frame synchronizer, under SpecSync.                   *)

\* C1: every frame live_sync yields, in the re-sync loop or from a fixed size
\* read, is the 15 byte nibble decoding of a chunk of exactly 33 bytes whose
\* first 30 bytes have high nibble 3, whose byte 30 is 0x0D and whose byte 31
\* is 0x0A (bytes counted from 0).
C1_YieldsOnlyValidated ==
    \A i \in 1..Len(frames) :
        LET c == frames[i].chunk
        IN  /\ Len(c) = 33
            /\ \A k \in 1..30 : c[k] \div 16 = 3
            /\ c[31] = 13
            /\ c[32] = 10
            /\ frames[i].reply = [j \in 1..15 |-> (c[2 * j - 1] % 16) + 16 * (c[2 * j] % 16)]

\* a 33 byte chunk was refused, and frames were yielded in both modes
C1_Witness ==
    /\ rejected > 0
    /\ \E i, j \in 1..Len(frames) : ~frames[i].locked /\ frames[j].locked

C2Source ==
    Garbage20 \o <<GAP>> \o meter_frame(LcdTenths) \o <<GAP>> \o meter_frame(LcdTimesTen)

C2Frames == <<meter_frame(LcdTenths), meter_frame(LcdTimesTen)>>

\* C2: from a 20 byte garbage burst, a silence, a valid 33 byte burst and a
\* second valid 33 byte frame, the synchronizer yields the two valid frames in
\* order and nothing else, the first from the re-sync loop and the second from
\* a fixed size read, and both have been yielded once the source is drained.
C2_TwoFramesThenLocked ==
    source = C2Source =>
        /\ Len(frames) <= 2
        /\ \A i \in 1..Len(frames) :
              /\ frames[i].chunk = C2Frames[i]
              /\ frames[i].locked = (i = 2)
        /\ rejected = 0
        /\ (wire = <<>> => Len(frames) = 2)
        /\ (Len(frames) = 2 /\ ~err => comTimeout = "frame")

\* the second frame of the scenario has been yielded
C2_Witness == source = C2Source /\ Len(frames) = 2 /\ ~err

\* C10: no frame live_sync yields makes live_monitor raise; the stream emits a
\* reading or drops the frame.
C10_NeverRaises == utFault = "none"

-----------------------------------------------------------------------------
(* SpecCore: ut382.py core, fed by live_monitor directly or through        *)
(* live_average.  The readings are drawn once, as a short cycle that the   *)
(* stream repeats; their sums are exact in binary64.                       *)

MaxReadings == 17    \* readings one behaviour takes from live_monitor
MaxCycle == 3        \* length of the cycle of readings

Reading(lux) == [lux |-> lux, unit |-> "lux"]

\* absent, 10.0, 3, 0.5, 0.50390625 (the last two both print as 0.50)
ReadingInputs ==
    { Reading(LuxNone), Reading(LuxFloat(FFromInt(10))), Reading(LuxInt(3)),
      Reading(LuxFloat(FDivInt(FFromInt(1), 2))),
      Reading(LuxFloat(FDivInt(FFromInt(129), 256))) }

MovingInputs == {0, 1, 2}

NoText == [fmt |-> "None", digits |-> 0]

LuxAsFloat(lux) == IF lux.t = "int" THEN FFromInt(lux.i) ELSE lux.f

\* sum(history), left to right from 0
RECURSIVE lux_sum(_)
lux_sum(h) ==
    IF h = <<>> THEN FFromInt(0)
    ELSE CHOOSE r \in { FAdd(s, LuxAsFloat(h[Len(h)])) :
                         s \in {lux_sum(SubSeq(h, 1, Len(h) - 1))} } : TRUE

\* a faulty variant: the window closes one reading late
average_due_late(h, duration) == Len(h) > duration * 8

\* live_average: not (len(history) < samples), samples = duration * 8.0
average_due(h, duration) == ~(Len(h) < duration * 8)

\* data['ave_lux'] = sum(history) / len(history)
ave_lux(h) == LuxFloat(FDivInt(lux_sum(h), Len(h)))

\* core: lux = num % data[k], num '%i' for an int and '%.2f' otherwise
core_format(lux) ==
    IF lux.t = "int" THEN Formatted("%i", lux.i)
    ELSE Formatted("%.2f", FFixed(lux.f, 2))

\* a faulty variant: every reading is written
delta_skip_never(delta, new, prev) == FALSE

\* core: options.delta and new == old
delta_skip(delta, new, prev) == delta /\ new = prev

InitCore ==
    /\ fnCall = NoCall
    /\ GmAtRest
    /\ SyncAtRest
    /\ coreOpts \in [moving : MovingInputs, delta : BOOLEAN]
    /\ \E n \in 1..MaxCycle : feed \in [1..n -> ReadingInputs]
    /\ seen = 0
    /\ valid = 0
    /\ history = <<>>
    /\ old = NoText
    /\ lines = <<>>
    /\ coreLog = <<>>

\* the reading live_monitor yields next
next_reading == feed[(seen % Len(feed)) + 1]

\* The body of core's loop for one item; value is data[k].  The log keeps
\* the item, the number of readings taken when it arrived and whether a
\* line was written for it.
core_body(value, unit) ==
    LET text == core_format(value)
        item(w) == [ at |-> seen + 1, value |-> value, written |-> w,
                     text |-> IF value.t = "None" THEN NoText ELSE text ]
    IN  IF value.t = "None"
        THEN /\ coreLog' = Append(coreLog, item(FALSE))
             /\ UNCHANGED <<old, lines>>
        ELSE IF delta_skip(coreOpts.delta, text, old)
        THEN /\ coreLog' = Append(coreLog, item(FALSE))
             /\ UNCHANGED <<old, lines>>
        ELSE /\ coreLog' = Append(coreLog, item(TRUE))
             /\ old' = text
             /\ lines' = Append(lines, [lux |-> text, unit |-> unit])

\* source = live_monitor(...): each reading goes to core's loop
MonitorStep ==
    /\ coreOpts.moving = 0
    /\ seen < MaxReadings
    /\ seen' = seen + 1
    /\ core_body(next_reading.lux, next_reading.unit)
    /\ UNCHANGED <<fnCall, gmVars, syncVars, coreOpts, feed, valid, history>>

\* source = live_average(...): one reading of live_monitor goes through
\* live_average's loop; when it yields, the average goes to core's loop
AverageStep ==
    /\ coreOpts.moving # 0
    /\ seen < MaxReadings
    /\ seen' = seen + 1
    /\ LET data == next_reading
           h    == Append(history, data.lux)
       IN  IF data.lux.t = "None"
           THEN UNCHANGED <<valid, history, old, lines, coreLog>>
           ELSE /\ valid' = valid + 1
                /\ IF ~average_due(h, coreOpts.moving)
                   THEN /\ history' = h
                        /\ UNCHANGED <<old, lines, coreLog>>
                   ELSE /\ history' = <<>>
                        /\ core_body(ave_lux(h), data.unit)
    /\ UNCHANGED <<fnCall, gmVars, syncVars, coreOpts, feed>>

NextCore == MonitorStep \/ AverageStep

SpecCore == InitCore /\ [][NextCore]_vars

-----------------------------------------------------------------------------
(* Properties of the stream transforms, under SpecCore.                    *)

\* the number of non-absent readings among the first n of the stream
RECURSIVE CountValid(_)
CountValid(n) ==
    IF n = 0 THEN 0
    ELSE CountValid(n - 1) + (IF feed[((n - 1) % Len(feed)) + 1].lux.t = "None" THEN 0 ELSE 1)

TenLux == <<Reading(LuxFloat(FFromInt(10)))>>

\* C12: with a window of d seconds, after k non-absent readings floor(k / 8d)
\* averages have been emitted, the i-th exactly at the reading that was the
\* (8d * i)-th non-absent one, the accumulator holds the k mod 8d readings
\* since and absent readings change nothing; with d = 2 and readings of 10.0
\* nothing is emitted before the 16th reading and 10.0 is emitted at it.
C12_MovingAverage ==
    coreOpts.moving # 0 =>
        LET w == 8 * coreOpts.moving
        IN  /\ valid = CountValid(seen)
            /\ Len(coreLog) = valid \div w
            /\ Len(history) = valid % w
            /\ \A i \in 1..Len(coreLog) :
                  /\ CountValid(coreLog[i].at) = w * i
                  /\ CountValid(coreLog[i].at - 1) = w * i - 1
            /\ (coreOpts.moving = 2 /\ feed = TenLux) =>
                  /\ (seen < 16 => coreLog = <<>>)
                  /\ (seen >= 16 =>
                        /\ Len(coreLog) = 1
                        /\ coreLog[1].at = 16
                        /\ FCmp(coreLog[1].value.f, FFromInt(10)) = 0)

\* sixteen readings of 10.0 with a two second window: the average is out
C12_Witness ==
    /\ coreOpts.moving = 2
    /\ feed = TenLux
    /\ seen = 16
    /\ Len(coreLog) = 1
    /\ coreLog[1].text = Formatted("%.2f", 1000)

\* the items of the log before item i for which a line was written
WrittenBefore(i) == {j \in 1..(i - 1) : coreLog[j].written}

Latest(S) == CHOOSE j \in S : \A k \in S : k <= j

\* C13: with --delta a reading is written if and only if it is not absent
\* and its formatted value differs from that of the line written last (the
\* first one has none before it); no two consecutive lines carry the same
\* formatted value.  Without --delta every non-absent reading is written.
C13_ChangeFilter ==
    /\ \A i \in 1..Len(coreLog) :
          coreLog[i].written <=>
              /\ coreLog[i].value.t # "None"
              /\ \/ ~coreOpts.delta
                 \/ WrittenBefore(i) = {}
                 \/ coreLog[i].text # coreLog[Latest(WrittenBefore(i))].text
    /\ Len(lines) = Cardinality({i \in 1..Len(coreLog) : coreLog[i].written})
    /\ \A i \in 1..Len(coreLog) :
          coreLog[i].written =>
              lines[Cardinality(WrittenBefore(i)) + 1].lux = coreLog[i].text
    /\ coreOpts.delta => \A n \in 1..(Len(lines) - 1) : lines[n].lux # lines[n + 1].lux

\* with --delta: a reading was dropped whose value differs from the one
\* before it but prints the same, and lines were written before and after
C13_Witness ==
    /\ coreOpts.delta
    /\ \E i \in 2..Len(coreLog) :
          /\ ~coreLog[i].written
          /\ coreLog[i].value.t # "None"
          /\ coreLog[i].value # coreLog[i - 1].value
          /\ coreLog[i - 1].written
          /\ \E j \in (i + 1)..Len(coreLog) : coreLog[j].written

-----------------------------------------------------------------------------
(* SpecCompose: ut382.py decode_lux applied to bounded summaries.          *)

\* what a digit field may hold: absent, a digit, the letter of the sentinel
DigitInputs == {None, "0", "1", "3", "7", "9", "L"}

\* the decimal point shown: none, tenths, hundredths, thousandths
PointInputs == {0, 1, 2, 3}

SummaryInputs ==
    [ unit : {"lux"}, big_1000 : DigitInputs, big_100 : DigitInputs,
      big_10 : DigitInputs, big_1 : DigitInputs, point : PointInputs,
      x10 : BOOLEAN ]

\* the fields of the summary decode_lux reads
lux_summary(s) ==
    [ unit |-> s.unit, big_1000 |-> s.big_1000, big_100 |-> s.big_100,
      big_10 |-> s.big_10, big_1 |-> s.big_1, big_10ths |-> s.point = 1,
      big_100ths |-> s.point = 2, big_1000ths |-> s.point = 3, x10 |-> s.x10 ]

InitCompose ==
    /\ fnCall = NoCall
    /\ GmAtRest
    /\ SyncAtRest
    /\ CoreAtRest

\* one application per behaviour
CallComposeLux ==
    /\ fnCall = NoCall
    /\ \E s \in SummaryInputs :
          fnCall' = [ op |-> "ut382.decode_lux", arg |-> s,
                      out |-> ut_decode_lux(lux_summary(s)) ]
    /\ UNCHANGED <<gmVars, syncVars, coreVars>>

NextCompose == CallComposeLux

SpecCompose == InitCompose /\ [][NextCompose]_vars

-----------------------------------------------------------------------------
(* Properties of the reading composer, under SpecCompose.                  *)

IsCompose == fnCall.op = "ut382.decode_lux"

ArgDigits == <<fnCall.arg.big_1000, fnCall.arg.big_100, fnCall.arg.big_10, fnCall.arg.big_1>>

\* every digit field is absent or a digit
Numeric == \A j \in 1..4 : ArgDigits[j] = None \/ IsDigit(ArgDigits[j])

\* 1000 * d3 + 100 * d2 + 10 * d1 + d0, absent counted as 0, times 10 with x10
ArgNumber ==
    LET d(j) == IF ArgDigits[j] = None THEN 0 ELSE DigitValue(ArgDigits[j])
    IN  (1000 * d(1) + 100 * d(2) + 10 * d(3) + d(4)) * (IF fnCall.arg.x10 THEN 10 ELSE 1)

\* C14: decode_lux returns an absent intensity if and only if the digits are
\* exactly (absent, 0, 'L', absent); for every combination of digits and
\* absent fields it returns a number, also when that number is zero.
C14_SentinelOnly ==
    IsCompose =>
        /\ (ArgDigits = <<None, "0", "L", None>>) =>
              (fnCall.out.exc = "none" /\ fnCall.out.val.lux.t = "None")
        /\ Numeric =>
              /\ fnCall.out.exc = "none"
              /\ fnCall.out.val.lux.t \in {"int", "float"}
        /\ (fnCall.out.exc = "none" /\ fnCall.out.val.lux.t = "None") =>
              ArgDigits = <<None, "0", "L", None>>

\* the sentinel was decoded
C14_Witness ==
    /\ IsCompose
    /\ ArgDigits = <<None, "0", "L", None>>
    /\ fnCall.out.val.lux.t = "None"

\* C15 as stated: with a decimal point the intensity is the binary64 value of
\* the number over 10, 100 or 1000; with none it is the integer itself.
C15_ComposedExactly ==
    (IsCompose /\ Numeric) =>
        IF fnCall.arg.point = 0
        THEN fnCall.out.val.lux = LuxInt(ArgNumber)
        ELSE /\ fnCall.out.val.lux.t = "float"
             /\ FCmp(fnCall.out.val.lux.f,
                     FDivInt(FFromInt(ArgNumber), Pow10(fnCall.arg.point))) = 0

\* C15: with a decimal point the intensity is a float within a relative error
\* of 2^-51 of the number over 10, 100 or 1000 (exactly 0 for the number 0);
\* with none it is the integer itself, exactly.
C15_ComposedWithinRounding ==
    (IsCompose /\ Numeric) =>
        IF fnCall.arg.point = 0
        THEN fnCall.out.val.lux = LuxInt(ArgNumber)
        ELSE LET f     == fnCall.out.val.lux.f
                 \* f * 10^k * 2^-f.e and the number * 2^-f.e
                 got   == BigMulSmall(f.m, Pow10(fnCall.arg.point))
                 want  == BigShiftLeft(BigFromInt(ArgNumber), 0 - f.e)
                 diff  == IF BigCmp(got, want) >= 0 THEN BigSub(got, want)
                          ELSE BigSub(want, got)
             IN  /\ fnCall.out.val.lux.t = "float"
                 /\ f.e <= 0
                 /\ BigCmp(BigShiftLeft(diff, 51), want) <= 0

\* a reading whose product is not the nearest binary64 value: 3 tenths
C15_Witness ==
    /\ IsCompose
    /\ Numeric
    /\ fnCall.arg.point = 1
    /\ ArgNumber = 3
    /\ FFixed(fnCall.out.val.lux.f, 2) = 30
    /\ FCmp(fnCall.out.val.lux.f, FDivInt(FFromInt(3), 10)) = 1

-----------------------------------------------------------------------------
(* Properties of live_monitor, under SpecSync.                             *)

\* the frames live_sync yielded whose menu field is not set
PlainFrames == SelectSeq(frames, LAMBDA f : decode_summary(f.reply).menu = None)

\* C16: the frames with the menu field set produce no reading and every
\* other frame produces exactly one, in frame order, whatever its battery
\* flag: the readings are those of the frames without menu, one for one.
C16_OneReadingPerFrame ==
    /\ Len(readings) = Len(PlainFrames)
    /\ \A i \in 1..Len(readings) :
          readings[i].unit = decode_summary(PlainFrames[i].reply).unit

-----------------------------------------------------------------------------
(* gonio_math.py: center finding and folding.  A sweep is a sequence of    *)
(* samples [lux, candela, angle]; Python index i is index i + 1.           *)

\* s[start::-1]: a negative start counts from the end, then it is clipped to
\* -1 .. len(s) - 1; the elements from there down to the first
slice_back(s, start) ==
    LET n   == Len(s)
        st  == IF start < 0 THEN start + n ELSE start
        top == IF st < 0 THEN -1 ELSE IF st >= n THEN n - 1 ELSE st
    IN  [i \in 1..(top + 1) |-> s[top + 2 - i]]

\* s[start:]: a negative start counts from the end, then it is clipped to
\* 0 .. len(s)
slice_from(s, start) ==
    LET n   == Len(s)
        st  == IF start < 0 THEN start + n ELSE start
        low == IF st < 0 THEN 0 ELSE IF st > n THEN n ELSE st
    IN  SubSeq(s, low + 1, n)

Min(a, b) == IF a < b THEN a ELSE b
Max(a, b) == IF a > b THEN a ELSE b
Abs(a) == IF a < 0 THEN 0 - a ELSE a

\* mid_error: the mean squared difference of the candela left and right of
\* mid, pair by pair outward; the candela are integers here, the sum is
\* exact and the quotient is the binary64 division of two integers
mid_error(data, mid) ==
    LET left  == slice_back(data, mid - 1)
        right == slice_from(data, mid + 1)
        pairs == Min(Len(left), Len(right))
        diff(i) == left[i].candela - right[i].candela
        total == SumSeq([i \in 1..pairs |-> diff(i) * diff(i)])
    IN  IF pairs = 0 THEN Raise("ZeroDivisionError")
        ELSE Return(FDivInt(FFromInt(total), pairs))

\* mid = max((line['lux'], i) ...)[1]: the greatest lux, the last such index
brightest(data) ==
    CHOOSE i \in 0..(Len(data) - 1) :
        \A j \in 0..(Len(data) - 1) :
            \/ data[j + 1].lux < data[i + 1].lux
            \/ (data[j + 1].lux = data[i + 1].lux /\ j <= i)

\* the while loop of center, entered with mid and its error
RECURSIVE center_from(_, _, _)
center_from(data, mid, error) ==
    LET error_L == mid_error(data, mid - 1)
        error_R == mid_error(data, mid + 1)
    IN  IF error_L.exc # "none" THEN error_L
        ELSE IF error_R.exc # "none" THEN error_R
        ELSE IF FCmp(error_L.val, error) < 0
        THEN center_from(data, mid - 1, error_L.val)
        ELSE IF FCmp(error_R.val, error) < 0
        THEN center_from(data, mid + 1, error_R.val)
        ELSE Return(mid)

center(data) ==
    LET mid   == brightest(data)
        error == mid_error(data, mid)
    IN  IF error.exc # "none" THEN error
        ELSE center_from(data, mid, error.val)

\* one pass of fold_over's loop, i counted from 1: the candela of the left
\* and right sample averaged, the angle of the right one if there is one
fold_entry(left, right, angle_offset, i) ==
    LET hasL == i <= Len(left)
        hasR == i <= Len(right)
        c_total   == (IF hasL THEN left[i].candela ELSE 0)
                     + (IF hasR THEN right[i].candela ELSE 0)
        c_samples == (IF hasL THEN 1 ELSE 0) + (IF hasR THEN 1 ELSE 0)
        angle == IF hasR THEN Abs(right[i].angle - angle_offset)
                 ELSE Abs(left[i].angle - angle_offset)
    IN  [angle |-> angle, candela |-> FDivInt(FFromInt(c_total), c_samples)]

\* fold_over for mid in -len(data) .. len(data) - 1; entry 0 keeps the
\* candela of the middle sample as it is
fold_over(data, mid) ==
    LET left   == slice_back(data, mid - 1)
        right  == slice_from(data, mid + 1)
        middle == data[(IF mid < 0 THEN mid + Len(data) ELSE mid) + 1]
        count  == Max(Len(left), Len(right))
    IN  <<[angle |-> 0, candela |-> FFromInt(middle.candela)]>>
        \o [i \in 1..count |-> fold_entry(left, right, middle.angle, i)]

-----------------------------------------------------------------------------
(* SpecGonio: center and fold_over applied to bounded sweeps.              *)

MaxSweep == 4    \* length of the generated sweeps

Symmetric7 == <<1, 2, 5, 9, 5, 2, 1>>

\* candela of a sweep: the symmetric array and every short array of 1, 5, 9
CandelaInputs ==
    {Symmetric7} \cup UNION {[1..n -> {1, 5, 9}] : n \in 1..MaxSweep}

\* sample angles: evenly spaced up, evenly spaced down, unevenly spaced up
AngleInputs ==
    { [i \in 1..7 |-> 10 * i - 40], [i \in 1..7 |-> 40 - 10 * i],
      <<0, 8, 9, 10, 20, 21, 40>> }

\* a sweep with the given candela and angles whose lux has its peak at peak
Sweep(cds, angles, peak) ==
    [i \in 1..Len(cds) |->
        [lux |-> IF i = peak + 1 THEN 100 ELSE cds[i], candela |-> cds[i],
         angle |-> angles[i]]]

InitGonio ==
    /\ fnCall = NoCall
    /\ GmAtRest
    /\ SyncAtRest
    /\ CoreAtRest

\* one application per behaviour
CallCenter ==
    /\ fnCall = NoCall
    /\ \E cds \in CandelaInputs, angles \in AngleInputs :
          \E peak \in 0..(Len(cds) - 1) :
             LET data == Sweep(cds, angles, peak)
             IN  fnCall' = [ op |-> "center", arg |-> [data |-> data, mid |-> peak],
                             out |-> center(data) ]
    /\ UNCHANGED <<gmVars, syncVars, coreVars>>

CallFoldOver ==
    /\ fnCall = NoCall
    /\ \E cds \in CandelaInputs, angles \in AngleInputs :
          \E mid \in 0..(Len(cds) - 1) :
             LET data == Sweep(cds, angles, mid)
             IN  fnCall' = [ op |-> "fold_over", arg |-> [data |-> data, mid |-> mid],
                             out |-> fold_over(data, mid) ]
    /\ UNCHANGED <<gmVars, syncVars, coreVars>>

\* the indices center passes to mid_error up to the end of the first pass of
\* its loop: the start, then mid - 1, then mid + 1, as far as no call raises
center_candidates(data) ==
    LET mid == brightest(data)
    IN  {mid}
        \cup (IF mid_error(data, mid).exc # "none" THEN {}
              ELSE {mid - 1}
                   \cup (IF mid_error(data, mid - 1).exc # "none" THEN {}
                         ELSE {mid + 1}))

\* one call of mid_error made by center
CallMidError ==
    /\ fnCall = NoCall
    /\ \E cds \in CandelaInputs, angles \in AngleInputs :
          \E peak \in 0..(Len(cds) - 1) :
             LET data == Sweep(cds, angles, peak)
             IN  \E mid \in center_candidates(data) :
                    fnCall' = [ op |-> "mid_error", arg |-> [data |-> data, mid |-> mid],
                                out |-> mid_error(data, mid) ]
    /\ UNCHANGED <<gmVars, syncVars, coreVars>>

NextGonio == CallCenter \/ CallFoldOver \/ CallMidError

SpecGonio == InitGonio /\ [][NextGonio]_vars

-----------------------------------------------------------------------------
(* Properties of center and fold_over, under SpecGonio.                    *)

ArgCandela == [i \in 1..Len(fnCall.arg.data) |-> fnCall.arg.data[i].candela]

ArgAngle == [i \in 1..Len(fnCall.arg.data) |-> fnCall.arg.data[i].angle]

\* C17: on the symmetric array 1, 2, 5, 9, 5, 2, 1 center returns index 3 from
\* every index the search starts at.
C17_CenterOfSymmetric ==
    (fnCall.op = "center" /\ ArgCandela = Symmetric7) => fnCall.out = Return(3)

\* C18: folding n samples around index c gives 1 + max(c, n - 1 - c) entries;
\* entry 0 is the center sample at angle 0; entry k has the mean candela of
\* the samples at c - k and c + k, or the candela of the one inside the
\* sweep, and the angle distance of such a sample to the center.
C18_FoldOver ==
    fnCall.op = "fold_over" =>
        LET n    == Len(fnCall.arg.data)
            c    == fnCall.arg.mid
            cd(i) == ArgCandela[i + 1]
            an(i) == ArgAngle[i + 1]
            out  == fnCall.out
            in(i) == 0 <= i /\ i < n
        IN  /\ Len(out) = 1 + Max(c, n - 1 - c)
            /\ out[1].angle = 0
            /\ FCmp(out[1].candela, FFromInt(cd(c))) = 0
            /\ \A k \in 1..(Len(out) - 1) :
                  /\ in(c - k) \/ in(c + k)
                  /\ (in(c - k) /\ in(c + k)) =>
                        /\ FCmp(FMul(out[k + 1].candela, FFromInt(2)),
                                FFromInt(cd(c - k) + cd(c + k))) = 0
                        /\ out[k + 1].angle \in {Abs(an(c - k) - an(c)), Abs(an(c + k) - an(c))}
                  /\ (in(c - k) /\ ~in(c + k)) =>
                        /\ FCmp(out[k + 1].candela, FFromInt(cd(c - k))) = 0
                        /\ out[k + 1].angle = Abs(an(c - k) - an(c))
                  /\ (in(c + k) /\ ~in(c - k)) =>
                        /\ FCmp(out[k + 1].candela, FFromInt(cd(c + k))) = 0
                        /\ out[k + 1].angle = Abs(an(c + k) - an(c))

\* C19: the folded profile of a sweep with strictly monotonic angles starts
\* at angle 0 and its angles increase strictly with the index.
C19_FoldedAnglesIncrease ==
    fnCall.op = "fold_over" =>
        /\ fnCall.out[1].angle = 0
        /\ \A k \in 1..(Len(fnCall.out) - 1) :
              fnCall.out[k].angle < fnCall.out[k + 1].angle

\* an index of the greatest candela of the sweep
IsMaxCandela(i) ==
    /\ i \in 0..(Len(ArgCandela) - 1)
    /\ \A j \in 1..Len(ArgCandela) : ArgCandela[j] <= ArgCandela[i + 1]

\* C24: the greedy search of center starts at an index of the greatest
\* candela of the sweep.
C24_StartsAtMaxCandela ==
    fnCall.op = "center" => IsMaxCandela(brightest(fnCall.arg.data))

\* the number of offsets k >= 0 with m - 1 - k and m + 1 + k both inside a
\* sweep of n samples
PairCount(n, m) == IF m < 1 \/ m > n - 2 THEN 0 ELSE Min(m, n - 1 - m)

\* the sum of (candela[m-1-k] - candela[m+1+k])^2 over the offsets k < count
SquaredDifferences(cds, m, count) ==
    SumSeq([i \in 1..count |->
               (cds[m + 1 - i] - cds[m + 1 + i]) * (cds[m + 1 - i] - cds[m + 1 + i])])

\* the symmetry error at m where at least one pair exists
SymmetryError(cds, m) ==
    FDivInt(FFromInt(SquaredDifferences(cds, m, PairCount(Len(cds), m))),
            PairCount(Len(cds), m))

\* C25: mid_error at an index center evaluates is the mean of the squared
\* differences over the pairs (m - 1 - k, m + 1 + k) that lie inside the
\* sweep; where no such pair exists no sample contributes and there is no
\* mean to return.
C25_SymmetryError ==
    fnCall.op = "mid_error" =>
        LET n == Len(ArgCandela)
            m == fnCall.arg.mid
        IN  IF PairCount(n, m) = 0
            THEN fnCall.out.exc # "none"
            ELSE /\ fnCall.out.exc = "none"
                 /\ FCmp(fnCall.out.val, SymmetryError(ArgCandela, m)) = 0

\* C26: the index center returns has a symmetry error, and it is less than or
\* equal to the symmetry error of each neighbour that has one.
C26_LocalMinimum ==
    (fnCall.op = "center" /\ fnCall.out.exc = "none") =>
        LET n == Len(ArgCandela)
            r == fnCall.out.val
        IN  /\ PairCount(n, r) > 0
            /\ \A m \in {r - 1, r + 1} :
                  PairCount(n, m) > 0 =>
                     FCmp(SymmetryError(ArgCandela, r), SymmetryError(ArgCandela, m)) <= 0

\* C27: on a sweep of 3 samples or more center returns, without a fault, an
\* index with a sample on each side.
C27_CenterInsideSweep ==
    (fnCall.op = "center" /\ Len(ArgCandela) >= 3) =>
        /\ fnCall.out.exc = "none"
        /\ 1 <= fnCall.out.val
        /\ fnCall.out.val <= Len(ArgCandela) - 2

-----------------------------------------------------------------------------
(* Properties of a combined invocation of gm1020.py, under SpecGm.         *)

\* the command a written frame carries
CommandKind(f) ==
    IF f = message_bits.status THEN "status"
    ELSE IF f = message_bits.dump_mem THEN "dump_mem"
    ELSE IF f = message_bits.clear_mem THEN "clear_mem"
    ELSE IF f = message_bits.live_start THEN "live_start"
    ELSE IF f = message_bits.live_stop THEN "live_stop"
    ELSE IF f[1] = 90 THEN "configure"
    ELSE "other"

\* the commands written so far, in the order of their writing
WrittenKinds == [i \in 1..Len(written) |-> CommandKind(written[i])]

CombinedOrder ==
    <<"status", "dump_mem", "clear_mem", "configure", "live_start", "live_stop">>

\* download, wipe, a settings change and monitoring in one invocation
Combined == opts.download /\ opts.wipe /\ push_setup(opts) /\ opts.monitor

\* C20: an invocation that combines download, wipe, a settings change and
\* monitoring writes its commands in the order status query, memory dump,
\* clear-memory, configure, live-start (live-stop last): what is written is
\* at every moment a prefix of that order, and an invocation that ends
\* without a fault has written all of them.  Nothing is written while the
\* dump runs, so clear-memory goes out only after the dump has ended; a wipe
\* whose echo is not confirmed leaves the settings held by the tool, the
\* stored-sample count among them, as they were.
C20_CombinedOrder ==
    /\ [](Combined =>
            /\ Len(written) <= Len(CombinedOrder)
            /\ WrittenKinds = SubSeq(CombinedOrder, 1, Len(written))
            /\ (pc = "exit" /\ fault = "none") => Len(written) = Len(CombinedOrder)
            /\ pc \in {"dump_start", "dump_read"} =>
                  (\A i \in 1..Len(written) : WrittenKinds[i] # "clear_mem"))
    /\ [][(Combined /\ pc = "dump_read") => written' = written]_vars
    /\ [][(Combined /\ pc = "wipe" /\ ~confirm'.ok) => conf' = conf]_vars

\* all four combined: one pair was downloaded, the wipe was not confirmed and
\* the count of 1900 stored samples is still held when the invocation ends
\* with all six commands written
C20_Witness ==
    /\ Combined
    /\ pc = "exit" /\ fault = "none"
    /\ WrittenKinds = CombinedOrder
    /\ Len(dumped) >= 1
    /\ conf.samples = 1900

-----------------------------------------------------------------------------
(* Properties of the two modes of live_sync, under SpecSync.               *)

\* the part of the wire a step takes, and the bytes in it
Taken == SubSeq(wire, 1, Len(wire) - Len(wire'))

TakenBytes == SelectSeq(Taken, LAMBDA x : x # GAP)

\* 33 bytes: 30 with high nibble 3, then 0x0D and 0x0A and a last byte
PassesValidation(c) ==
    /\ Len(c) = 33
    /\ \A k \in 1..30 : c[k] \div 16 = 3
    /\ c[31] = 13
    /\ c[32] = 10

\* C21: a step in re-sync mode takes one burst: silences, then a non-empty
\* run of bytes up to the next silence (or the end of the source).  The burst
\* is yielded, and the mode left, exactly if it has 33 bytes and passes
\* validation; every other burst is dropped and the mode is kept.
C21_ResyncYieldsFirstValid ==
    [][err =>
        /\ TakenBytes # <<>>
        /\ \E g \in 0..Len(Taken) :
              /\ \A i \in 1..g : Taken[i] = GAP
              /\ \/ Taken = [i \in 1..g |-> GAP] \o TakenBytes \o <<GAP>>
                 \/ Taken = [i \in 1..g |-> GAP] \o TakenBytes /\ wire' = <<>>
        /\ IF PassesValidation(TakenBytes)
           THEN /\ Len(frames') = Len(frames) + 1
                /\ frames'[Len(frames')].chunk = TakenBytes
                /\ ~frames'[Len(frames')].locked
                /\ ~err'
           ELSE /\ frames' = frames
                /\ err']_vars

\* a frame is yielded in re-sync mode, a fixed size read then fails
\* validation, and the next valid burst is yielded in re-sync mode again
C21_Witness ==
    /\ Len(frames) = 2
    /\ ~frames[1].locked /\ ~frames[2].locked
    /\ rejected > 0
    /\ ~err

\* C22: a step in locked mode is one read of at most 33 bytes, which returns
\* fewer only when a silence or the end of the source stops it.  33 bytes that
\* pass validation are yielded as one frame and the mode is kept; fewer than
\* 33 bytes, or 33 bytes that fail validation, yield nothing and the next
\* step is taken in re-sync mode, which scans bursts under the byte timeout.
C22_LockedReads ==
    /\ [][~err =>
            /\ Len(TakenBytes) <= 33
            /\ Len(TakenBytes) < 33 => (wire' = <<>> \/ Taken[Len(Taken)] = GAP)
            /\ comTimeout' = "frame"
            /\ IF PassesValidation(TakenBytes)
               THEN /\ Len(frames') = Len(frames) + 1
                    /\ frames'[Len(frames')].chunk = TakenBytes
                    /\ frames'[Len(frames')].locked
                    /\ ~err'
               ELSE /\ frames' = frames
                    /\ err']_vars
    /\ [][err => comTimeout' = "byte"]_vars
    /\ [](\A i \in 1..Len(frames) : frames[i].locked => i > 1)

\* two frames were yielded, the second by a fixed size read; the read after
\* it failed and the synchronizer is back in re-sync mode
C22_Witness ==
    /\ Len(frames) = 2
    /\ frames[2].locked
    /\ err
    /\ comTimeout = "frame"

\* the status reply the settings held in c were decoded from
IsStatusOf(reply, c) ==
    /\ Len(reply) = 8
    /\ SameSettings(retrieve_settings(reply).val, c)

Flag(b) == IF b # 0 THEN 1 ELSE 0

\* frame f is a configure frame that carries, for every setting the options
\* o do not name, the value of the status reply
CarriesStatus(f, o, reply) ==
    /\ f[1] = 90
    /\ o.shutdown = "" => f[2] = Flag(reply[3])
    /\ o.shutdown_timer = 0 => f[3] = reply[4]
    /\ o.logging = "" => f[4] = Flag(reply[5])
    /\ o.logging_timer = 0 => (f[5] = reply[6] /\ f[6] = reply[7])
    /\ o.unit \cap {"F", "C"} = {} => f[7] % 2 = reply[8] % 2
    /\ o.unit \cap {"fc", "lux"} = {} => (f[7] \div 2) % 2 = (reply[8] \div 2) % 2

\* C28: the configure frame a settings push sends carries, for each setting
\* no option names, the value decoded from the status reply read earlier in
\* the invocation, and a status query was written before it.  The push step
\* sends the frame exactly if the shutdown timer is in 1..240 and the logging
\* interval in 1..3600 once the options are applied.
C28_PushPreserves ==
    /\ [][pc = "push" =>
            /\ written # <<>> /\ written[1] = message_bits.status
            /\ \E reply \in StatusReplyInputs :
                  /\ IsStatusOf(reply, conf)
                  /\ written' # written =>
                        /\ written' = Append(written, confirm'.frame)
                        /\ CarriesStatus(confirm'.frame, opts, reply)
            /\ written' # written <=>
                  /\ conf'.power_time \in 1..240
                  /\ conf'.logging_time \in 1..3600]_vars
    /\ [](\A i \in 1..Len(written) :
            written[i][1] = 90 =>
               \E j \in 1..(i - 1) : written[j] = message_bits.status)

\* a push with only the temperature unit and the shutdown timer named, after
\* the status reply with footcandle, automatic logging and interval 1: the
\* frame keeps the three and carries fahrenheit and timer 240
C28_Witness ==
    /\ confirm.op = "push"
    /\ opts.unit = {"F"} /\ opts.shutdown_timer = 240
    /\ opts.logging = "" /\ opts.logging_timer = 0 /\ opts.shutdown = ""
    /\ confirm.frame = <<90, 0, 240, 1, 0, 1, 3, 79>>

-----------------------------------------------------------------------------
(* SpecRecover: live_sync on a source that delivers noise and then valid   *)
(* frames, each followed by a silence.  live_sync is a loop without an     *)
(* exit: it takes its next step whenever there is one to take.             *)

MaxNoise == 2    \* segments of noise in front of the valid frames

\* a frame cut short by one byte
Truncated == SubSeq(meter_frame(LcdTenths), 1, 32)

NoiseInputs == SegmentInputs \cup {Truncated, Truncated \o <<GAP>>}

TailInputs == {meter_frame(LcdTenths), meter_frame(LcdOverRange)}

InitRecover ==
    /\ fnCall = NoCall
    /\ GmAtRest
    /\ CoreAtRest
    /\ \E n \in 0..MaxNoise : \E segs \in [1..n -> NoiseInputs] :
          \E f \in TailInputs :
             source = Flatten(segs) \o f \o <<GAP>> \o f \o <<GAP>>
    /\ wire = source
    /\ err = TRUE
    /\ comTimeout = "frame"
    /\ frames = <<>>
    /\ rejected = 0
    /\ readings = <<>>
    /\ utFault = "none"

\* An iteration of live_sync's loop, by what it does to the source and to err:
\* it is taken when the generator is alive and, in the re-sync loop, a byte is
\* still to come (live_raw does not return before it has one); it takes a
\* prefix off the source and sets err.  Every step of NextSync is such a step
\* and changes wire or err, and one is possible exactly when the other is.
live_sync_iteration ==
    /\ utFault = "none"
    /\ err => SkipGaps(wire) # <<>>
    /\ \E k \in 0..Len(wire) : wire' = Drop(wire, k)
    /\ err' \in BOOLEAN

\* the loop of live_sync has no exit and nothing else runs: the next iteration
\* is taken whenever there is one to take
SpecRecover ==
    InitRecover /\ [][NextSync]_vars /\ WF_<<wire, err>>(live_sync_iteration)

\* two valid frames, each followed by a silence, are still to come and
\* nothing comes after them
TailAhead ==
    /\ Len(wire) >= 68
    /\ LET s == Drop(wire, Len(wire) - 68)
       IN  /\ PassesValidation(SubSeq(s, 1, 33))
           /\ s[34] = GAP
           /\ PassesValidation(SubSeq(s, 35, 67))
           /\ s[68] = GAP

\* C23: from every state of the synchronizer, in either mode and whatever
\* noise is still to be read, once the source delivers only valid frames each
\* followed by a silence a further frame is eventually yielded.  No byte is
\* read twice: every step takes a prefix off the source.  A 33 byte chunk that
\* fails validation is dropped and puts (or keeps) the synchronizer in
\* re-sync mode, and the frame that follows a failure is yielded by the
\* re-sync loop.
C23_FramingRecovery ==
    /\ \A n \in 0..(MaxNoise + 2) :
          (TailAhead /\ utFault = "none" /\ Len(frames) = n) ~> (Len(frames) > n)
    /\ [][<<live_sync_iteration>>_<<wire, err>>]_vars
    /\ [][rejected' # rejected => (err' /\ frames' = frames)]_vars
    /\ [][(err /\ frames' # frames) => ~frames'[Len(frames')].locked]_vars

\* the lock was lost on a chunk that failed validation and a frame of the
\* tail was yielded by the re-sync loop afterwards
C23_Witness ==
    /\ Len(frames) >= 2
    /\ frames[1].chunk \notin TailInputs \/ Len(source) > 3 * 34
    /\ rejected > 0
    /\ ~frames[Len(frames)].locked
    /\ ~err
    /\ Len(wire) < 68

=============================================================================
